---- MODULE Spec2Model ----
(***************************************************************************)
(* The Kinetic Controller (KineticSphere) and the trail updater (Grass /   *)
(* WebGLGrass) of the 3d-grass-marble scene, as a frame-driven state       *)
(* machine.                                                                *)
(*                                                                         *)
(* Numbers.  The program computes in IEEE doubles.  Here a length is an    *)
(* integer count of 1/Unit world units (fixed point), a frame delta is an  *)
(* integer count of 1/TicksPerSecond seconds, and every product that       *)
(* leaves the grid is rounded toward zero (TruncDiv).  Unit is a multiple  *)
(* of TicksPerSecond and of the damping denominator, so forceStrength*dt   *)
(* and the damping of the steady state are exact.                          *)
(***************************************************************************)
EXTENDS Integers, Sequences, FiniteSets, TLC

VARIABLES
    keys,                \* KineticSphere: keys.current, the four directional flags
    isMousePressed,      \* KineticSphere: isMousePressed.current
    mouseTarget,         \* KineticSphere: mouseTarget.current (NoTarget is null)
    velocity,            \* KineticSphere: velocity.current
    position,            \* KineticSphere: meshRef.current.position
    roll,                \* the rotateOnAxis call of the last KineticSphere frame
    spherePosition,      \* App: which Vector3 the spherePosition state refers to
    pendingPosition,     \* App: a setSpherePosition update waits for its render
    oldestTrailPosition, \* Grass: oldestTrailPosition.current, the lag point
    uniforms,            \* Grass: material.uniforms (spherePosition, oldestTrailPosition)
    trailRate,           \* hundredths: 75 (Grass) or 60 (WebGLGrass), the mounted variant
    pc,                  \* position in the frame loop: idle, grass, sphere, render
    delta,               \* the running frame's delta, in ticks
    frame,               \* frames completed
    keyForce,            \* the force the keys added in the last KineticSphere frame
    pointerForce,        \* the force the pointer added in the last KineticSphere frame
    emitted,             \* the position last handed to onPositionChange
    drawn,               \* the uniforms the last per-instance pass read
    lagWrites,           \* writes of the lag point in the running frame
    lastPointerEvent,    \* none, down or up: the last pointer event
    events,              \* input events handled so far
    config,              \* the other shader inputs: time, fieldSize, instanceCount,
                         \*   windSpeed, grassHeight, cameraPosition
    instance,            \* the vertex the shader runs for: gl_InstanceID and uv.y
    vertex,              \* what the vertex shader computed for that vertex
    shader,              \* the file whose GLSL the material was built from
    fragment,            \* what the fragment shader computed for a fragment of it
    controls,            \* WebGLGrass: the values of the useControls panel
    rendered,            \* WebGLGrass: the values its last render ran with
    mesh,                \* WebGLGrass: instancedMesh elements created so far
    effect               \* WebGLGrass: the uniform-update effect is scheduled

vars == <<keys, isMousePressed, mouseTarget, velocity, position, roll,
          spherePosition, pendingPosition, oldestTrailPosition, uniforms,
          trailRate, pc, delta, frame, keyForce, pointerForce, emitted, drawn,
          lagWrites, lastPointerEvent, events, config, instance, vertex,
          shader, fragment, controls, rendered, mesh, effect>>

----------------------------------------------------------------------------
(* Bounds of the model *)

\* input events plus frames the exhaustive specification runs
MaxSteps == 5

\* frames of the forward-key scenario (one second is 60 of them)
ForwardFrames == 420

\* the frame from which the forward-key scenario is held to have settled
SettleFrames == 400

\* the frames of the straight-line scenario, and the frame after which the
\* lag-to-lead distance has to stand still
LineFrames == 900

LineSettle == 800

\* the largest of the low instance indices the vertex shader is run for
MaxIndex == 12

----------------------------------------------------------------------------
(* Fixed-point numbers *)

TicksPerSecond == 60

\* 1.0 world unit; 60 * 50 makes 8/60 and 49/50 of the steady state exact
Unit == TicksPerSecond * 50

Abs(n) == IF n < 0 THEN -n ELSE n

Max2(a, b) == IF a >= b THEN a ELSE b

\* a / b rounded toward zero, b > 0
TruncDiv(a, b) == IF a >= 0 THEN a \div b ELSE -((-a) \div b)

RECURSIVE IsqrtIter(_, _, _)
IsqrtIter(n, lo, hi) ==
    IF lo >= hi THEN lo
    ELSE LET mid == (lo + hi + 1) \div 2
         IN  IF mid * mid <= n THEN IsqrtIter(n, mid, hi)
                               ELSE IsqrtIter(n, lo, mid - 1)

\* floor of the square root of n, 0 <= n < 2^31
Isqrt(n) == IsqrtIter(n, 0, 46340)

----------------------------------------------------------------------------
(* THREE.Vector3 *)

Vec(x, y, z) == [x |-> x, y |-> y, z |-> z]

Zero == Vec(0, 0, 0)

Add(a, b) == Vec(a.x + b.x, a.y + b.y, a.z + b.z)

Sub(a, b) == Vec(a.x - b.x, a.y - b.y, a.z - b.z)

\* v.multiplyScalar(n / d)
MultiplyScalar(v, n, d) ==
    Vec(TruncDiv(v.x * n, d), TruncDiv(v.y * n, d), TruncDiv(v.z * n, d))

\* Length and Normalize keep a relative precision, as floating point does:
\* the vector is first brought to a largest component near 2^14 (enlarged by
\* ScaleUp when it is short, reduced by ScaleDown when it is long), so that its
\* squares fit and the root is exact to about one part in 2^13
LargestComponent(v) == Max2(Abs(v.x), Max2(Abs(v.y), Abs(v.z)))

ScaleUp(v) ==
    LET m == LargestComponent(v)
    IN  IF m = 0 \/ m >= 8192 THEN 1 ELSE 16384 \div m

ScaleDown(v) == (LargestComponent(v) \div 16384) + 1

Scaled(v) ==
    LET up   == ScaleUp(v)
        down == ScaleDown(v)
    IN  Vec(TruncDiv(v.x * up, down), TruncDiv(v.y * up, down),
            TruncDiv(v.z * up, down))

\* v.length()
Length(v) ==
    LET u == Scaled(v)
    IN  (Isqrt(u.x * u.x + u.y * u.y + u.z * u.z) * ScaleDown(v)) \div ScaleUp(v)

\* v.normalize(): divideScalar(length() || 1), so the zero vector stays zero
Normalize(v) ==
    LET u   == Scaled(v)
        len == Isqrt(u.x * u.x + u.y * u.y + u.z * u.z)
    IN  IF len = 0 THEN Zero
        ELSE Vec(TruncDiv(u.x * Unit, len), TruncDiv(u.y * Unit, len),
                 TruncDiv(u.z * Unit, len))

\* a.lerp(b, n / d): a += (b - a) * alpha, alpha not clamped
Lerp(a, b, n, d) == Add(a, MultiplyScalar(Sub(b, a), n, d))

----------------------------------------------------------------------------
(* Constants of the program *)

forceStrength == 8

\* velocity.multiplyScalar(0.98) is DampingNum / DampingDen
DampingNum == 49

DampingDen == 50

\* the trail rate of Grass (delta * 0.75) and of WebGLGrass (delta * 0.6), in hundredths
GrassRate == 75

WebGLGrassRate == 60

\* if (speed > 0.05)
RollThreshold == Unit \div 20

\* rotateOnAxis(axis, speed * delta * 0.05): the angle is speed * ticks / RollDivisor
RollDivisor == TicksPerSecond * 20

\* meshRef.current.position.y = 1.0
RestHeight == Unit

\* <mesh ref={meshRef} position={[0, 1.0, 0]}>
StartPosition == Vec(0, Unit, 0)

\* the ground plane lies at y = -0.01
GroundY == -(Unit \div 100)

\* null
NoTarget == [null |-> TRUE]

\* intersects.length = 0
Miss == [miss |-> TRUE]

\* intersects[0].point: points of the ground plane the pointer ray can hit
GroundHits == {Vec(0, GroundY, 0), Vec(3 * Unit, GroundY, 4 * Unit)}

\* frame deltas, in ticks: a 60 Hz frame and a frame after a stall of two seconds
Deltas == {1, 2 * TicksPerSecond}

KeyNames == {"w", "a", "s", "d"}

----------------------------------------------------------------------------
(* KineticSphere: the input handlers *)

handleKeyDown(k) ==
    /\ pc = "idle"
    /\ events' = events + 1
    /\ keys' = [keys EXCEPT ![k] = TRUE]
    /\ UNCHANGED <<config, instance, vertex, shader, fragment, controls, rendered,
                   mesh, effect,
                   isMousePressed, mouseTarget, velocity, position, roll,
                   spherePosition, pendingPosition, oldestTrailPosition,
                   uniforms, trailRate, pc, delta, frame, keyForce,
                   pointerForce, emitted, drawn, lagWrites, lastPointerEvent>>

handleKeyUp(k) ==
    /\ pc = "idle"
    /\ events' = events + 1
    /\ keys' = [keys EXCEPT ![k] = FALSE]
    /\ UNCHANGED <<config, instance, vertex, shader, fragment, controls, rendered,
                   mesh, effect,
                   isMousePressed, mouseTarget, velocity, position, roll,
                   spherePosition, pendingPosition, oldestTrailPosition,
                   uniforms, trailRate, pc, delta, frame, keyForce,
                   pointerForce, emitted, drawn, lagWrites, lastPointerEvent>>

handleMouseDown ==
    /\ pc = "idle"
    /\ events' = events + 1
    /\ isMousePressed' = TRUE
    /\ lastPointerEvent' = "down"
    /\ UNCHANGED <<config, instance, vertex, shader, fragment, controls, rendered,
                   mesh, effect,
                   keys, mouseTarget, velocity, position, roll,
                   spherePosition, pendingPosition, oldestTrailPosition,
                   uniforms, trailRate, pc, delta, frame, keyForce,
                   pointerForce, emitted, drawn, lagWrites>>

\* handleMouseUp as it would be without "mouseTarget.current = null"
handleMouseUpKeepsTarget ==
    /\ pc = "idle"
    /\ events' = events + 1
    /\ isMousePressed' = FALSE
    /\ lastPointerEvent' = "up"
    /\ UNCHANGED <<config, instance, vertex, shader, fragment, controls, rendered,
                   mesh, effect,
                   keys, mouseTarget, velocity, position, roll,
                   spherePosition, pendingPosition, oldestTrailPosition,
                   uniforms, trailRate, pc, delta, frame, keyForce,
                   pointerForce, emitted, drawn, lagWrites>>

handleMouseUp ==
    /\ pc = "idle"
    /\ events' = events + 1
    /\ isMousePressed' = FALSE
    /\ mouseTarget' = NoTarget
    /\ lastPointerEvent' = "up"
    /\ UNCHANGED <<config, instance, vertex, shader, fragment, controls, rendered,
                   mesh, effect,
                   keys, velocity, position, roll,
                   spherePosition, pendingPosition, oldestTrailPosition,
                   uniforms, trailRate, pc, delta, frame, keyForce,
                   pointerForce, emitted, drawn, lagWrites>>

----------------------------------------------------------------------------
(* KineticSphere: useFrame *)

\* the raycast: the target is replaced only while pressed and only by a hit
Raycast(pressed, target, hit) ==
    IF pressed /\ hit # Miss THEN hit ELSE target

\* KeyForce as it would be with "s" pushing the way "w" does
KeyForceSameSign(k) ==
    LET F  == forceStrength * Unit
        f1 == IF k.w THEN Vec(0, 0, -F) ELSE Zero
        f2 == IF k.s THEN Vec(f1.x, f1.y, f1.z - F) ELSE f1
        f3 == IF k.a THEN Vec(f2.x - F, f2.y, f2.z) ELSE f2
        f4 == IF k.d THEN Vec(f3.x + F, f3.y, f3.z) ELSE f3
    IN  f4

\* if (keys.current.w) force.z -= forceStrength; ... s, a, d
KeyForce(k) ==
    LET F  == forceStrength * Unit
        f1 == IF k.w THEN Vec(0, 0, -F) ELSE Zero
        f2 == IF k.s THEN Vec(f1.x, f1.y, f1.z + F) ELSE f1
        f3 == IF k.a THEN Vec(f2.x - F, f2.y, f2.z) ELSE f2
        f4 == IF k.d THEN Vec(f3.x + F, f3.y, f3.z) ELSE f3
    IN  f4

\* PointerForce as it would be without "direction.y = 0"
PointerForceKeepsY(target, pressed, pos) ==
    IF target # NoTarget /\ pressed
    THEN MultiplyScalar(Normalize(Sub(target, pos)), forceStrength, 1)
    ELSE Zero

\* if (mouseTarget.current && isMousePressed.current) { direction ... }
PointerForce(target, pressed, pos) ==
    IF target # NoTarget /\ pressed
    THEN LET direction == Sub(target, pos)
             flat      == Vec(direction.x, 0, direction.z)
         IN  MultiplyScalar(Normalize(flat), forceStrength, 1)
    ELSE Zero

\* Integrate as it would be with the damping applied before the force
IntegrateDampsFirst(v, force, ticks) ==
    Add(MultiplyScalar(v, DampingNum, DampingDen),
        MultiplyScalar(force, ticks, TicksPerSecond))

\* Integrate as it would be without the damping
IntegrateNoDamping(v, force, ticks) ==
    Add(v, MultiplyScalar(force, ticks, TicksPerSecond))

\* velocity.add(force.multiplyScalar(delta)); velocity.multiplyScalar(0.98)
Integrate(v, force, ticks) ==
    MultiplyScalar(Add(v, MultiplyScalar(force, ticks, TicksPerSecond)),
                   DampingNum, DampingDen)

\* position.add(velocity.clone().multiplyScalar(delta))
Advance(pos, v, ticks) == Add(pos, MultiplyScalar(v, ticks, TicksPerSecond))

\* PinToGround as it would be with the height of a sphere of radius 0.5
PinToGroundHalf(pos) == Vec(pos.x, RestHeight \div 2, pos.z)

\* meshRef.current.position.y = 1.0
PinToGround(pos) == Vec(pos.x, RestHeight, pos.z)

\* no rotateOnAxis call in the frame
NoRoll == [applied |-> FALSE, axis |-> Zero, angle |-> 0]

\* Rolling as it would be without the speed threshold
RollingAlways(v, ticks) ==
    [applied |-> TRUE,
     axis    |-> Normalize(Vec(-v.z, 0, v.x)),
     angle   |-> TruncDiv(Length(v) * ticks, RollDivisor)]

\* if (speed > 0.05) rotateOnAxis((-v.z, 0, v.x).normalize(), speed * delta * 0.05)
Rolling(v, ticks) ==
    LET speed == Length(v)
    IN  IF speed > RollThreshold
        THEN [applied |-> TRUE,
              axis    |-> Normalize(Vec(-v.z, 0, v.x)),
              angle   |-> TruncDiv(speed * ticks, RollDivisor)]
        ELSE NoRoll

\* setSpherePosition(meshRef.current.position): the same object after the first
\* render bails out, a different one schedules a render of App
SetSpherePosition(current) == current # "mesh"

KineticSphereUseFrame(hit) ==
    /\ pc = "sphere"
    /\ LET target == Raycast(isMousePressed, mouseTarget, hit)
           kf     == KeyForce(keys)
           pf     == PointerForce(target, isMousePressed, position)
           v      == Integrate(velocity, Add(kf, pf), delta)
           p      == PinToGround(Advance(position, v, delta))
       IN  /\ mouseTarget' = target
           /\ keyForce' = kf
           /\ pointerForce' = pf
           /\ velocity' = v
           /\ position' = p
           /\ roll' = Rolling(v, delta)
           /\ emitted' = p
    /\ pendingPosition' = (pendingPosition \/ SetSpherePosition(spherePosition))
    /\ pc' = "render"
    /\ UNCHANGED <<config, instance, vertex, shader, fragment, controls, rendered,
                   mesh, effect,
                   events, keys, isMousePressed, spherePosition, oldestTrailPosition,
                   uniforms, trailRate, delta, frame, drawn, lagWrites,
                   lastPointerEvent>>

----------------------------------------------------------------------------
(* Grass / WebGLGrass: useFrame, the trail updater *)

\* the value of the Vector3 the spherePosition prop refers to: the Vector3 of
\* useState(new THREE.Vector3(0, 1.0, 0)) or, after App rendered the update,
\* the mesh's own position object
LeadPoint == IF spherePosition = "mesh" THEN position ELSE StartPosition

\* delta * 0.75 (delta * 0.6) as ticks / TrailDivisor: ticks / 80 (ticks / 100)
TrailDivisor(rate) == (TicksPerSecond * 100) \div rate

\* TrailStep as it would be with lerp(spherePosition, rate), the delta forgotten
TrailStepNoDelta(lag, lead, ticks, rate) == Lerp(lag, lead, rate, 100)

\* oldestTrailPosition.current.lerp(spherePosition, delta * rate)
TrailStep(lag, lead, ticks, rate) == Lerp(lag, lead, ticks, TrailDivisor(rate))

\* WriteUniforms as it would be without the copy of the lag point
WriteUniformsLeadOnly(lead, lag) ==
    [spherePosition |-> lead, oldestTrailPosition |-> uniforms.oldestTrailPosition]

\* uniforms.spherePosition.value.copy(..); uniforms.oldestTrailPosition.value.copy(..)
WriteUniforms(lead, lag) == [spherePosition |-> lead, oldestTrailPosition |-> lag]

GrassUseFrame ==
    /\ pc = "grass"
    /\ LET lag == TrailStep(oldestTrailPosition, LeadPoint, delta, trailRate)
       IN  /\ oldestTrailPosition' = lag
           /\ uniforms' = WriteUniforms(LeadPoint, lag)
    /\ lagWrites' = lagWrites + 1
    /\ pc' = "sphere"
    /\ UNCHANGED <<config, instance, vertex, shader, fragment, controls, rendered,
                   mesh, effect,
                   events, keys, isMousePressed, mouseTarget, velocity, position, roll,
                   spherePosition, pendingPosition, trailRate, delta, frame,
                   keyForce, pointerForce, emitted, drawn, lastPointerEvent>>

----------------------------------------------------------------------------
(* Grass / WebGLGrass: the vertex shader, one evaluation of main()         *)
(*                                                                         *)
(* A dimensionless float (a hash value, uv.y, a smoothstep) is an integer  *)
(* count of 1/One; a hash argument idx * seed is an exact count of         *)
(* ten-thousandths.  The GLSL of App.tsx (Grass) and of WebGLGrass differ; *)
(* the mounted variant is the one whose trail rate trailRate holds.        *)

One == 1000

\* a * b for non-negative fractions a, b in 1/One, rounded down
MulOne(a, b) == (a \div One) * b + ((a % One) * b) \div One

\* fract(p * k): p in ten-thousandths, k = k4 / 10000, the result in 1/One
FractScaled(p, k4) ==
    ((p \div 100000) * k4 + ((p % 100000) * k4) \div 100000) % One

\* float hash11(float p)
hash11(p) ==
    LET p1 == FractScaled(p, 1031)
        p2 == MulOne(p1, p1 + 33330)
        p3 == MulOne(p2, p2 + p2)
    IN  p3 % One

\* hash22 as it would be if it returned a signed value, fract(..) * 2 - 1
hash22Signed(px, py) ==
    LET x == FractScaled(px, 1031)
        y == FractScaled(py, 1030)
        z == FractScaled(px, 973)
        d == MulOne(x, y + 33330) + MulOne(y, z + 33330) + MulOne(z, x + 33330)
    IN  [x |-> 2 * (MulOne((x + d) + (y + d), z + d) % One) - One,
         y |-> 2 * (MulOne((x + d) + (z + d), y + d) % One) - One]

\* vec2 hash22(vec2 p)
hash22(px, py) ==
    LET x == FractScaled(px, 1031)
        y == FractScaled(py, 1030)
        z == FractScaled(px, 973)
        d == MulOne(x, y + 33330) + MulOne(y, z + 33330) + MulOne(z, x + 33330)
    IN  [x |-> MulOne((x + d) + (y + d), z + d) % One,
         y |-> MulOne((x + d) + (z + d), y + d) % One]

\* the mounted variant
Variant == IF trailRate = GrassRate THEN "Grass" ELSE "WebGLGrass"

\* the seeds that multiply idx in main(), in ten-thousandths, per attribute;
\* Grass has no stiffness
Seeds ==
    [placement  |-> <<13, 17>>,
     size       |-> <<19, 23>>,
     restBend   |-> <<41, 47>>,
     rotation   |-> <<37>>,
     stiffness  |-> <<71>>,
     colorVar   |-> <<31>>,
     hueVar     |-> <<53>>,
     satVar     |-> <<67>>]

\* the argument of the attribute's hash call for the instance idx
HashInput(attribute, idx) ==
    [n \in DOMAIN Seeds[attribute] |-> idx * Seeds[attribute][n]]

\* vec2 randPos = hash22(vec2(idx * 0.0013, idx * 0.0017))
RandPos(i, u, c) ==
    LET p == HashInput("placement", i.idx) IN hash22(p[1], p[2])

\* GrassPos as it would be with the index normalised by instanceCount first
GrassPosByCount(i, u, c) ==
    LET n == (i.idx * 1000) \div (c.instanceCount \div 1000)
        r == hash22(n * 13, n * 17)
    IN  Vec(TruncDiv((r.x - One \div 2) * c.fieldSize * Unit, One), 0,
            TruncDiv((r.y - One \div 2) * c.fieldSize * Unit, One))

\* vec3 grassPos = vec3((randPos.x - 0.5) * fieldSize, 0.0,
\*                      (randPos.y - 0.5) * fieldSize)
\* as main() computes it for the instance i under the trail uniforms u and the
\* other inputs c
GrassPos(i, u, c) ==
    LET r == RandPos(i, u, c)
    IN  Vec(TruncDiv((r.x - One \div 2) * c.fieldSize * Unit, One), 0,
            TruncDiv((r.y - One \div 2) * c.fieldSize * Unit, One))

\* the inputs of Grass: count and fieldSize are constants of the component, the
\* shader has 1.25 for the blade height and no wind speed input
GrassConfig(t, cam) ==
    [time |-> t, fieldSize |-> 50, instanceCount |-> 150000,
     windSpeed |-> 0, grassHeight |-> 125, cameraPosition |-> cam]

\* the camera of the Canvas
StartCamera == Vec(0, 6 * Unit, 25 * Unit)

\* the inputs right after mounting with the controls at their defaults
MountedConfig ==
    [time |-> 0, fieldSize |-> 50, instanceCount |-> 150000,
     windSpeed |-> 13, grassHeight |-> 130, cameraPosition |-> StartCamera]

\* the shader file of the mounted variant: App.tsx defines Grass, part_000 the
\* WebGLGrass whose trail and bends are modelled above; WebGLGrass.tsx is
\* another WebGLGrass, with its own wind, rotation and colour constants
MountedShader == IF Variant = "Grass" THEN "App.tsx" ELSE "part_000"

\* the useControls defaults of WebGLGrass; Grass has no panel
NoControls == [none |-> TRUE]

DefaultControls ==
    [bladeCount |-> 150000, bladeHeight |-> 130, fieldSize |-> 50, windSpeed |-> 13]

NoFragment == [none |-> TRUE]

\* the grass component right after mounting: one instancedMesh, its uniforms
\* built from the defaults, the first effect run
MountedGrass ==
    /\ shader = MountedShader
    /\ fragment = NoFragment
    /\ controls = (IF Variant = "Grass" THEN NoControls ELSE DefaultControls)
    /\ rendered = controls
    /\ mesh = 1
    /\ effect = FALSE

NoInstance == [none |-> TRUE]

NoVertex == [none |-> TRUE]

\* clamp(x, lo, hi)
Clamp(x, lo, hi) == IF x < lo THEN lo ELSE IF x > hi THEN hi ELSE x

\* a * b / d rounded toward zero, computed without leaving 32 bits
MulDiv(a, b, d) ==
    LET m == (Abs(a) \div d) * Abs(b) + ((Abs(a) % d) * Abs(b)) \div d
    IN  IF (a < 0) = (b < 0) THEN m ELSE -m

\* smoothstep(e0, e1, x), all in 1/One
Smoothstep(e0, e1, x) ==
    LET t == Clamp(TruncDiv((x - e0) * One, e1 - e0), 0, One)
    IN  (t * t * (3 * One - 2 * t)) \div (One * One)

\* the horizontal part of a vec3, .xz, kept as a Vec with y = 0
XZ(v) == Vec(v.x, 0, v.z)

\* dot(a, b) of two horizontal vectors, b a direction in 1/Unit
Dot(a, b) == MulDiv(a.x, b.x, Unit) + MulDiv(a.z, b.z, Unit)

\* v / d for a horizontal vector v and d = length(v) or d > length(v): a
\* direction in 1/Unit, the unit vector with the precision of Normalize
DivideByLength(v, d) ==
    IF d = Length(v) THEN Normalize(v)
    ELSE Vec(TruncDiv(v.x * Unit, d), 0, TruncDiv(v.z * Unit, d))

\* float influenceRadius = 1.75 (Grass), 1.45 (WebGLGrass)
InfluenceRadius == IF Variant = "Grass" THEN (175 * Unit) \div 100 ELSE (145 * Unit) \div 100

\* bendStrength * uv.y (Grass), bendStrength * 1.3 * uv.y (WebGLGrass), in tenths
BendScale == IF Variant = "Grass" THEN 10 ELSE 13

\* max(.., 0.001)
Epsilon == Unit \div 1000

\* if (lineLength > 0.1) of Grass
MinLineLength == Unit \div 10

\* a float that is not a number, and a vector of them
NaN == [nan |-> TRUE]

\* what normalize(vec2(0.0)) may return: GLSL leaves it undefined; builds give
\* 0 * inversesqrt(0) = NaN or the zero vector
NormalizeOfZero == {NaN, Zero}

\* the pieces of the line-based bending, computed in the order of the code, each
\* step taking the values of the steps before it; a denominator is the divisor
\* of a division in the code that ran

\* sphereInfluence where no bend is computed
NoTrailBend(lineLength, lineStart) ==
    [lineLength |-> lineLength, denominators |-> {},
     projectionLength |-> 0, closestPointOnLine |-> lineStart,
     distanceToLine |-> 0, positionAlongLine |-> 0,
     bendStrength |-> 0, toPoint |-> Zero, bend |-> Zero]

\* bendStrength: the radial smoothstep times lineFalloff
BendStrength(distanceToLine, positionAlongLine) ==
    (Smoothstep(0, One, One - (distanceToLine * One) \div InfluenceRadius)
       * Smoothstep(0, One, positionAlongLine)) \div One

\* awayDirection: toPoint / max(pointDistance, 0.001) in WebGLGrass,
\* normalize(toPoint) in Grass, zeroNormalized being what that returns for the
\* zero vector
AwayDirection(toPoint, pointDistance, zeroNormalized) ==
    IF Variant = "Grass"
    THEN IF pointDistance = 0 THEN zeroNormalized
         ELSE DivideByLength(toPoint, pointDistance)
    ELSE DivideByLength(toPoint, Max2(pointDistance, Epsilon))

\* sphereInfluence.xz = awayDirection * bendAmount
Sideways(awayDirection, bendStrength, uvY) ==
    IF awayDirection = NaN THEN NaN
    ELSE Vec(MulDiv(awayDirection.x, (bendStrength * BendScale * uvY) \div (10 * One), One),
             0,
             MulDiv(awayDirection.z, (bendStrength * BendScale * uvY) \div (10 * One), One))

\* sphereInfluence.y = -horizontalBend * horizontalBend * 0.3 * uv.y
HeightCompensated(horizontal, uvY) ==
    IF horizontal = NaN THEN NaN
    ELSE Vec(horizontal.x,
             -((((Length(horizontal) * Length(horizontal)) \div Unit) * 3 * uvY)
                  \div (10 * One)),
             horizontal.z)

\* from toPoint and the distance on: Grass bends under
\* if (distanceToLine < influenceRadius), WebGLGrass always
TrailBent(i, zeroNormalized, lineStart, lineLength, divisor, projectionLength, closestPointOnLine, toPoint, distanceToLine) ==
    IF Variant = "Grass" /\ distanceToLine >= InfluenceRadius
    THEN [NoTrailBend(lineLength, lineStart) EXCEPT
              !.denominators = {divisor},
              !.projectionLength = projectionLength,
              !.closestPointOnLine = closestPointOnLine,
              !.distanceToLine = distanceToLine]
    ELSE [lineLength     |-> lineLength,
          denominators   |->
              {divisor, InfluenceRadius,
               IF Variant = "Grass" THEN distanceToLine
               ELSE Max2(distanceToLine, Epsilon)},
          projectionLength |-> projectionLength,
          closestPointOnLine |-> closestPointOnLine,
          distanceToLine |-> distanceToLine,
          positionAlongLine |-> (projectionLength * One) \div divisor,
          bendStrength   |->
              BendStrength(distanceToLine, (projectionLength * One) \div divisor),
          toPoint        |-> toPoint,
          bend |->
              HeightCompensated(
                  Sideways(AwayDirection(toPoint, distanceToLine, zeroNormalized),
                           BendStrength(distanceToLine,
                                        (projectionLength * One) \div divisor),
                           i.uvY),
                  i.uvY)]

\* from closestPointOnLine on
TrailAround(i, zeroNormalized, grass, lineStart, lineLength, divisor, projectionLength, closestPointOnLine) ==
    TrailBent(i, zeroNormalized, lineStart, lineLength, divisor, projectionLength,
              closestPointOnLine, Sub(grass, closestPointOnLine),
              Length(Sub(grass, closestPointOnLine)))

\* from projectionLength on
TrailProjected(i, zeroNormalized, grass, lineStart, lineLength, divisor, lineDirection, projectionLength) ==
    TrailAround(i, zeroNormalized, grass, lineStart, lineLength, divisor,
                projectionLength,
                Add(lineStart, Vec(MulDiv(lineDirection.x, projectionLength, Unit), 0,
                                   MulDiv(lineDirection.z, projectionLength, Unit))))

\* from lineDirection on; divisor is what the code divides by for the segment
\* length
TrailAlong(i, zeroNormalized, grass, lineStart, lineLength, divisor, lineDirection) ==
    TrailProjected(i, zeroNormalized, grass, lineStart, lineLength, divisor,
                   lineDirection,
                   Clamp(Dot(Sub(grass, lineStart), lineDirection), 0, divisor))

\*   WebGLGrass: branch-free, both denominators under max(.., 0.001)
TrailOfWebGLGrass(i, grass, lineStart, lineVector, lineLength) ==
    TrailAlong(i, Zero, grass, lineStart, lineLength, Max2(lineLength, Epsilon),
               DivideByLength(lineVector, Max2(lineLength, Epsilon)))

TrailBendWebGLGrass(i, u, c) ==
    TrailOfWebGLGrass(i, GrassPos(i, u, c), XZ(u.oldestTrailPosition),
                      Sub(XZ(u.spherePosition), XZ(u.oldestTrailPosition)),
                      Length(Sub(XZ(u.spherePosition), XZ(u.oldestTrailPosition))))

\*   Grass: the bend is computed under if (lineLength > 0.1), the divisions are
\*   by lineLength itself
TrailOfGrass(i, zeroNormalized, grass, lineStart, lineVector, lineLength) ==
    IF lineLength <= MinLineLength THEN NoTrailBend(lineLength, lineStart)
    ELSE TrailAlong(i, zeroNormalized, grass, lineStart, lineLength, lineLength,
                    DivideByLength(lineVector, lineLength))

TrailBendGrass(i, u, c, zeroNormalized) ==
    TrailOfGrass(i, zeroNormalized, GrassPos(i, u, c), XZ(u.oldestTrailPosition),
                 Sub(XZ(u.spherePosition), XZ(u.oldestTrailPosition)),
                 Length(Sub(XZ(u.spherePosition), XZ(u.oldestTrailPosition))))

\* the line-based bending of the mounted variant
TrailBend(i, u, c, zeroNormalized) ==
    IF Variant = "Grass" THEN TrailBendGrass(i, u, c, zeroNormalized)
    ELSE TrailBendWebGLGrass(i, u, c)

\* sin of an angle given as a fraction of a turn in 1/One, the result in 1/One
\* (Bhaskara's rational approximation, exact at the multiples of a quarter turn)
SinTurn(f) ==
    LET g == f % One
        h == g % (One \div 2)
        q == h * (One - 2 * h)
        v == (32 * q) \div ((5 * One * One - 8 * q) \div One)
    IN  IF g < One \div 2 THEN v ELSE -v

CosTurn(f) == SinTurn(f + One \div 4)

\* float heightVar = grassHeight + sizeVars.x * 0.8 (1.25 + .. in Grass), in 1/One
HeightVar(i, u, c) ==
    LET p == HashInput("size", i.idx)
    IN  c.grassHeight * 10 + (hash22(p[1], p[2]).x * 8) \div 10

\* RestBend as it would be with the length compensation added instead of subtracted
RestBendRaising(i, u, c) ==
    LET p        == HashInput("restBend", i.idx)
        bendVars == hash22(p[1], p[2])
        bendMagnitude == bendVars.y \div 4
        baseBendX == TruncDiv(CosTurn(bendVars.x) * bendMagnitude, One)
        baseBendZ == TruncDiv(SinTurn(bendVars.x) * bendMagnitude, One)
        bendInfluence == (((i.uvY * i.uvY) \div One) * HeightVar(i, u, c)) \div One
        x == TruncDiv(TruncDiv(baseBendX * bendInfluence, One) * Unit, One)
        z == TruncDiv(TruncDiv(baseBendZ * bendInfluence, One) * Unit, One)
    IN  [bend |-> Vec(x, (((x * x + z * z) \div Unit) * 2 * i.uvY) \div (10 * One), z)]

\* the initial bend: bendVars, bendAngle, bendMagnitude, baseBendX/Z,
\* bendInfluence = uv.y * uv.y * heightVar, initialBend and its length compensation
RestBend(i, u, c) ==
    LET p        == HashInput("restBend", i.idx)
        bendVars == hash22(p[1], p[2])
        bendMagnitude == bendVars.y \div 4
        baseBendX == TruncDiv(CosTurn(bendVars.x) * bendMagnitude, One)
        baseBendZ == TruncDiv(SinTurn(bendVars.x) * bendMagnitude, One)
        bendInfluence == (((i.uvY * i.uvY) \div One) * HeightVar(i, u, c)) \div One
        x == TruncDiv(TruncDiv(baseBendX * bendInfluence, One) * Unit, One)
        z == TruncDiv(TruncDiv(baseBendZ * bendInfluence, One) * Unit, One)
    IN  [bend |-> Vec(x, -((((x * x + z * z) \div Unit) * 2 * i.uvY) \div (10 * One)), z)]

\* float hash12(vec2 p) at a lattice point (x, y): fract(n * 0.1031) of an
\* integer n, negative ones included, is ((n * 1031) mod 10000) / 10000
hash12(x, y) ==
    LET px == ((x * 1031) % 10000) \div 10
        py == ((y * 1031) % 10000) \div 10
        d  == MulOne(px, py + 33330) + MulOne(py, px + 33330) + MulOne(px, px + 33330)
    IN  MulOne((px + d) + (py + d), px + d) % One

\* float noise(vec2 p), p and the result in 1/One
noise(x, y) ==
    LET ix == x \div One
        iy == y \div One
        a  == hash12(ix, iy)
        b  == hash12(ix + 1, iy)
        cc == hash12(ix, iy + 1)
        d  == hash12(ix + 1, iy + 1)
        ux == Smoothstep(0, One, x % One)
        uy == Smoothstep(0, One, y % One)
    IN  a + TruncDiv((b - a) * ux, One)
          + TruncDiv(TruncDiv((cc - a) * uy, One) * (One - ux), One)
          + TruncDiv(TruncDiv((d - b) * ux, One) * uy, One)

\* float stiffness = 0.5 + stiffnessVar * 0.8, in 1/One
Stiffness(i, u, c) ==
    One \div 2 + (hash11(HashInput("stiffness", i.idx)[1]) * 8) \div 10

\* grassPos.xz * k/100 + windTime * -(m/10) as a noise coordinate in 1/One, with
\* windTime = time * speed, the time in ticks and the speed in tenths
WindCoord(g, k, ticks, speed, m) ==
    (g * k) \div ((100 * Unit) \div One)
      - (ticks * speed * m * (One \div 100)) \div TicksPerSecond

\* totalWind from the sum of the weighted noise octaves, the wind speed in
\* tenths and the stiffness, all else in 1/One:
\*   part_000        (windDetail + gustBase) * windSpeed / stiffness - windSpeed * 0.5
\*   WebGLGrass.tsx  (windNoise + gustPattern) * 0.4 * windSpeed * (1.0 / stiffness)
\*   App.tsx         (windNoise + gustPattern) * 0.4
TotalWind(sh, octaves, windSpeed, stiffness) ==
    IF sh = "part_000"
    THEN (((octaves * windSpeed) \div 10) * One) \div stiffness - (windSpeed * One) \div 20
    ELSE IF sh = "WebGLGrass.tsx"
    THEN (((((octaves * 4) \div 10) * windSpeed) \div 10) * One) \div stiffness
    ELSE (octaves * 4) \div 10

\* the factor of windBend.x, in 1/One: windInfluence = uv.y * totalWind in
\* part_000, totalWind * windInfluence with windInfluence = uv.y^3 in the others
WindAtHeight(sh, totalWind, uvY) ==
    IF sh = "part_000" THEN TruncDiv(uvY * totalWind, One)
    ELSE TruncDiv(totalWind * ((((uvY * uvY) \div One) * uvY) \div One), One)

\* windBend = vec3(w, 0.0, w * 0.3) and windBend.y = -|windBend.xz|^2 * 0.1 * uv.y
WindVector(w, uvY) ==
    Vec(TruncDiv(w * Unit, One),
        -((((TruncDiv(w * Unit, One) * TruncDiv(w * Unit, One)
               + TruncDiv(w * 3 * Unit, 10 * One) * TruncDiv(w * 3 * Unit, 10 * One))
              \div Unit) * uvY) \div (10 * One)),
        TruncDiv(w * 3 * Unit, 10 * One))

\* the record of one wind evaluation; windInfluence is the variable of that
\* name in the code
WindRecord(sh, stiffness, octaves, totalWind, uvY) ==
    [stiffness |-> stiffness, noise |-> octaves, totalWind |-> totalWind,
     windInfluence |->
         IF sh = "part_000" THEN WindAtHeight(sh, totalWind, uvY)
         ELSE (((uvY * uvY) \div One) * uvY) \div One,
     bend |-> WindVector(WindAtHeight(sh, totalWind, uvY), uvY)]

\* WindBendWebGLGrass as it would be if the octaves were not multiplied by windSpeed
WindBendUnscaled(i, u, c) ==
    LET g == GrassPos(i, u, c)
        windDetail == (noise(WindCoord(g.x, 10, c.time, c.windSpeed, 4),
                             WindCoord(g.z, 10, c.time, c.windSpeed, 2)) * 4) \div 10
        gustBase   == (noise(WindCoord(g.x, 3, c.time, c.windSpeed, 6),
                             WindCoord(g.z, 3, c.time, c.windSpeed, 5)) * 4) \div 10
        stiffness  == Stiffness(i, u, c)
        totalWind  == ((windDetail + gustBase) * One) \div stiffness
                        - (c.windSpeed * One) \div 20
        windInfluence == TruncDiv(i.uvY * totalWind, One)
        x == TruncDiv(windInfluence * Unit, One)
        z == TruncDiv(windInfluence * 3 * Unit, 10 * One)
    IN  [stiffness |-> stiffness, noise |-> windDetail + gustBase,
         totalWind |-> totalWind, windInfluence |-> windInfluence,
         bend |-> Vec(x, -((((x * x + z * z) \div Unit) * i.uvY) \div (10 * One)), z)]

\* the wind of the shader sh from the octaves, the wind speed and the stiffness
WindOf(sh, stiffness, octaves, windSpeed, uvY) ==
    WindRecord(sh, stiffness, octaves, TotalWind(sh, octaves, windSpeed, stiffness), uvY)

\* the wind of WebGLGrass (part_000): a detail and a gust octave, times
\* windSpeed, divided by the stiffness, less windSpeed * 0.5
WindBendWebGLGrass(i, u, c) ==
    WindOf("part_000", Stiffness(i, u, c),
           (noise(WindCoord(GrassPos(i, u, c).x, 10, c.time, c.windSpeed, 4),
                  WindCoord(GrassPos(i, u, c).z, 10, c.time, c.windSpeed, 2)) * 4) \div 10
             + (noise(WindCoord(GrassPos(i, u, c).x, 3, c.time, c.windSpeed, 6),
                      WindCoord(GrassPos(i, u, c).z, 3, c.time, c.windSpeed, 5)) * 4) \div 10,
           c.windSpeed, i.uvY)

\* windNoise + gustPattern: three octaves of windCoord and a gust pattern, the
\* wind time being time * speed with the speed in tenths
OctavesAt(x, z, gx, gz) ==
    noise(x, z) \div 4 + noise(2 * x, 2 * z) \div 4 + noise(4 * x, 4 * z) \div 8
      + (noise(gx, gz) * 7) \div 10

Octaves(g, ticks, speed) ==
    OctavesAt(WindCoord(g.x, 10, ticks, speed, 3), WindCoord(g.z, 10, ticks, speed, 2),
              WindCoord(g.x, 5, ticks, speed, 8), WindCoord(g.z, 5, ticks, speed, 1))

\* the wind of WebGLGrass.tsx: windTime = time * windSpeed * 2.0, the octaves
\* times 0.4 * windSpeed / stiffness; windInfluence = uv.y^3
WindBendWebGLGrassTsx(i, u, c) ==
    WindOf("WebGLGrass.tsx", Stiffness(i, u, c),
           Octaves(GrassPos(i, u, c), c.time, 2 * c.windSpeed), c.windSpeed, i.uvY)

\* the wind of Grass: the wind speed is time * 2.0 and the pattern moves the
\* other way, three octaves and a gust pattern, times 0.4; windInfluence = uv.y^3
WindBendGrass(i, u, c) ==
    WindOf("App.tsx", One, Octaves(GrassPos(i, u, c), c.time, -20), 0, i.uvY)

\* the wind bend of the mounted shader
WindBend(i, u, c) ==
    IF shader = "App.tsx" THEN WindBendGrass(i, u, c)
    ELSE IF shader = "part_000" THEN WindBendWebGLGrass(i, u, c)
    ELSE WindBendWebGLGrassTsx(i, u, c)

\* the attributes main() derives from hashes of idx
Attributes == IF Variant = "Grass" THEN DOMAIN Seeds \ {"stiffness"} ELSE DOMAIN Seeds

\* main(): the outputs of one evaluation
VertexMain(i, u, c, zeroNormalized) ==
    [grassPos   |-> GrassPos(i, u, c),
     randPos    |-> RandPos(i, u, c),
     hashInputs |-> [a \in Attributes |-> HashInput(a, i.idx)],
     rest       |-> RestBend(i, u, c),
     trail      |-> TrailBend(i, u, c, zeroNormalized),
     wind       |-> WindBend(i, u, c)]

----------------------------------------------------------------------------
(* Grass / WebGLGrass: what main() computes after the bends, for each of    *)
(* the three shader files                                                  *)

\* colour channels are carried in hundred-thousandths
Tone == 100 * One

Rgb(r, g, b) == [r |-> r, g |-> g, b |-> b]

\* vec3(r, g, b) of the GLSL text, written in hundredths
Color(r, g, b) == Rgb((r * Tone) \div 100, (g * Tone) \div 100, (b * Tone) \div 100)

\* float step(edge, x)
step(edge, x) == IF x < edge THEN 0 ELSE One

\* mix(a, b, t) with t in 1/One
Mix(a, b, t) == a + TruncDiv((b - a) * t, One)

MixRgb(a, b, t) == Rgb(Mix(a.r, b.r, t), Mix(a.g, b.g, t), Mix(a.b, b.b, t))

\* color * k with k in 1/One
ScaleRgb(a, k) == Rgb(TruncDiv(a.r * k, One), TruncDiv(a.g * k, One), TruncDiv(a.b * k, One))

AddRgb(a, b) == Rgb(a.r + b.r, a.g + b.g, a.b + b.b)

\* the colours the three files declare
Palette ==
    [baseGreen   |-> Color(8, 25, 8),   tipGreen  |-> Color(20, 60, 20),
     darkGreen   |-> Color(3, 12, 3),   darkTip   |-> Color(10, 35, 10),
     yellowGreen |-> Color(22, 28, 6),  yellowTip |-> Color(50, 80, 15),
     brightGreen |-> Color(18, 45, 18), brightTip |-> Color(35, 90, 35)]

\* the thresholds of the hue hash
DarkBelow == (3 * One) \div 10

YellowBelow == (7 * One) \div 10

\* if (hueVar < 0.3) .. else if (hueVar < 0.7) .. else ..
CategoryByBranch(hueVar) ==
    [isDark   |-> IF hueVar < DarkBelow THEN One ELSE 0,
     isYellow |-> IF hueVar < DarkBelow THEN 0 ELSE IF hueVar < YellowBelow THEN One ELSE 0,
     isBright |-> IF hueVar < YellowBelow THEN 0 ELSE One]

\* the weights with the arguments of step the other way round, step(0.3, hueVar)
CategoryByStepSwapped(hueVar) ==
    [isDark   |-> step(DarkBelow, hueVar),
     isYellow |-> (step(YellowBelow, hueVar) * (One - step(DarkBelow, hueVar))) \div One,
     isBright |-> One - step(YellowBelow, hueVar)]

\* isDark = step(hueVar, 0.3); isYellow = step(hueVar, 0.7) * (1.0 - isDark);
\* isBright = 1.0 - step(hueVar, 0.7)
CategoryByStep(hueVar) ==
    [isDark   |-> step(hueVar, DarkBelow),
     isYellow |-> (step(hueVar, YellowBelow) * (One - step(hueVar, DarkBelow))) \div One,
     isBright |-> One - step(hueVar, YellowBelow)]

Category(sh, hueVar) ==
    IF sh = "App.tsx" THEN CategoryByBranch(hueVar) ELSE CategoryByStep(hueVar)

\* the base (from = baseGreen) or tip (from = tipGreen) colour of the category
CategoryColor(cat, from, dark, yellow, bright, satVar) ==
    AddRgb(ScaleRgb(MixRgb(from, dark, (satVar * 12) \div 10), cat.isDark),
           AddRgb(ScaleRgb(MixRgb(from, yellow, satVar), cat.isYellow),
                  ScaleRgb(MixRgb(from, bright, (satVar * 12) \div 10), cat.isBright)))

\* color = mix(color, color * 1.6, colorVar), 1.2 in the two older files
VariationGain(sh) == IF sh = "part_000" THEN (16 * One) \div 10 ELSE (12 * One) \div 10

Varied(sh, color, colorVar) == MixRgb(color, ScaleRgb(color, VariationGain(sh)), colorVar)

\* heightGradient = smoothstep(0., 1., uv.y), to 0.9 or 0.8 in the older files
HeightGradient(sh, uvY) ==
    IF sh = "part_000" THEN Smoothstep(0, One, uvY)
    ELSE IF sh = "WebGLGrass.tsx" THEN Smoothstep(0, (9 * One) \div 10, uvY)
    ELSE Smoothstep(0, (8 * One) \div 10, uvY)

\* vColor = mix(baseColor, tipColor, heightGradient), in Grass from baseColor * 0.4
BladeColor(sh, baseColor, tipColor, uvY) ==
    MixRgb(IF sh = "App.tsx" THEN ScaleRgb(baseColor, (4 * One) \div 10) ELSE baseColor,
           tipColor, HeightGradient(sh, uvY))

ShadowRadius(sh) ==
    IF sh = "part_000" THEN (165 * Unit) \div 100
    ELSE IF sh = "WebGLGrass.tsx" THEN (15 * Unit) \div 10
    ELSE 2 * Unit

\* influenceRadius of calculateTrailBending in the same file
InfluenceRadiusOf(sh) ==
    IF sh = "part_000" THEN (145 * Unit) \div 100 ELSE (175 * Unit) \div 100

\* darkenAmount: the branch of Grass, the step and clamp of WebGLGrass
DarkenAmount(sh, d) ==
    IF sh = "App.tsx"
    THEN IF d < ShadowRadius(sh)
         THEN (Smoothstep(0, One, One - (d * One) \div ShadowRadius(sh)) * 8) \div 10
         ELSE 0
    ELSE (Smoothstep(0, One,
                     (Clamp(One - (d * One) \div ShadowRadius(sh), 0, One)
                        * (One - step(ShadowRadius(sh), d))) \div One) * 8) \div 10

\* the colour of the vertex from the three hashes, uv.y and the distance to
\* the lead point
ColorOf(sh, cat, colorVar, hueVar, satVar, uvY, d) ==
    [colorVar |-> colorVar, hueVar |-> hueVar, satVar |-> satVar,
     category |-> cat,
     unshadowed |->
        BladeColor(sh,
            Varied(sh, CategoryColor(cat, Palette.baseGreen, Palette.darkGreen,
                                     Palette.yellowGreen, Palette.brightGreen, satVar), colorVar),
            Varied(sh, CategoryColor(cat, Palette.tipGreen, Palette.darkTip,
                                     Palette.yellowTip, Palette.brightTip, satVar), colorVar),
            uvY),
     distanceToSphere |-> d,
     darkenAmount |-> DarkenAmount(sh, d)]

\* vColor *= (1.0 - darkenAmount)
Shadowed(color) == ScaleRgb(color.unshadowed, One - color.darkenAmount)

VertexColor(sh, i, u, c) ==
    ColorOf(sh, Category(sh, hash11(HashInput("hueVar", i.idx)[1])),
            hash11(HashInput("colorVar", i.idx)[1]),
            hash11(HashInput("hueVar", i.idx)[1]),
            hash11(HashInput("satVar", i.idx)[1]),
            i.uvY, Length(XZ(Sub(GrassPos(i, u, c), u.spherePosition))))

\* angles are carried in turns: 6.28318 radians are One
TwoPi == (628318 * One) \div 100000

\* an angle of the GLSL text, given in thousandths of a radian, in turns
Radians(r) == (r * One) \div TwoPi

\* atan of a ratio t in [0, 1], in turns: t * (pi / 4 + 0.273 * (1 - t)) radians
AtanTurn(t) == (t * (125 * One + 43 * (One - t))) \div (One * One)

\* the angle of (|x|, |y|) in the first quadrant
AtanQuadrant(ax, ay) ==
    IF ax = 0 /\ ay = 0 THEN 0
    ELSE IF ax >= ay THEN AtanTurn((ay * One) \div ax)
    ELSE One \div 4 - AtanTurn((ax * One) \div ay)

\* float atan(float y, float x), in turns in (-1/2, 1/2]
Atan2Turn(y, x) ==
    IF y >= 0
    THEN (IF x >= 0 THEN AtanQuadrant(Abs(x), Abs(y)) ELSE One \div 2 - AtanQuadrant(Abs(x), Abs(y)))
    ELSE (IF x >= 0 THEN -AtanQuadrant(Abs(x), Abs(y)) ELSE AtanQuadrant(Abs(x), Abs(y)) - One \div 2)

\* randomRotation = hash11(idx * 0.0037) * 6.28318
RandomRotation(i) == hash11(HashInput("rotation", i.idx)[1])

\* toCameraXZ = normalize(cameraPosition.xz - grassPos.xz); in Grass the xz of
\* normalize(cameraPosition - grassPos), normalized
ToCameraXZ(i, u, c) == Normalize(XZ(Sub(c.cameraPosition, GrassPos(i, u, c))))

\* abs(dot(bladeDir, toCameraXZ)) with bladeDir = (cos(r), sin(r)); Grass takes
\* bladeForward = (sin(r), cos(r))
Alignment(sh, r, toCamera) ==
    IF sh = "App.tsx"
    THEN Abs(TruncDiv(SinTurn(r) * toCamera.x + CosTurn(r) * toCamera.z, Unit))
    ELSE Abs(TruncDiv(CosTurn(r) * toCamera.x + SinTurn(r) * toCamera.z, Unit))

\* optimalAngle = atan(toCameraXZ.y, toCameraXZ.x) + 1.5708; Grass turns to
\* atan(toCameraDir.x, toCameraDir.z)
OptimalAngle(sh, toCamera) ==
    IF sh = "App.tsx" THEN Atan2Turn(toCamera.x, toCamera.z)
    ELSE Atan2Turn(toCamera.z, toCamera.x) + One \div 4

\* angleDiff = mod(randomRotation - optimalAngle + 3.14159, 6.28318) - 3.14159
AngleDiff(r, optimalAngle) == ((r - optimalAngle + One \div 2) % One) - One \div 2

\* billboardStrength = smoothstep(0.3, 0.9, alignment) * 0.7
BillboardStrength(alignment) ==
    (Smoothstep((3 * One) \div 10, (9 * One) \div 10, alignment) * 7) \div 10

\* edgeOnStrength * 0.7 = smoothstep(0.3, 1.2, abs(angleDiff)) * 0.7
EdgeOnStrength(angleDiff) ==
    (Smoothstep(Radians(300), Radians(1200), Abs(angleDiff)) * 7) \div 10

\* the weight of the optimal angle in the three files
BlendWeight(sh, alignment, angleDiff) ==
    IF sh = "part_000" THEN BillboardStrength(alignment)
    ELSE IF sh = "WebGLGrass.tsx" THEN EdgeOnStrength(angleDiff)
    ELSE (Smoothstep((3 * One) \div 10, (8 * One) \div 10, alignment) * 6) \div 10

\* finalRotation = mix(randomRotation, optimalAngle, weight)
RotationOf(sh, r, toCamera, alignment, optimalAngle) ==
    [randomRotation |-> r,
     toCameraXZ     |-> toCamera,
     alignment      |-> alignment,
     optimalAngle   |-> optimalAngle,
     angleDiff      |-> AngleDiff(r, optimalAngle),
     weight         |-> BlendWeight(sh, alignment, AngleDiff(r, optimalAngle)),
     finalRotation  |-> Mix(r, optimalAngle, BlendWeight(sh, alignment, AngleDiff(r, optimalAngle)))]

Billboard(sh, r, toCamera) ==
    RotationOf(sh, r, toCamera, Alignment(sh, r, toCamera), OptimalAngle(sh, toCamera))

\* the part of the vertex shader that the three files share in form: the wind
\* of the file, the blade rotation, the colour and the shadow
SurfaceMain(sh, i, u, c) ==
    [wind |-> IF sh = "App.tsx" THEN WindBendGrass(i, u, c)
              ELSE IF sh = "part_000" THEN WindBendWebGLGrass(i, u, c)
              ELSE WindBendWebGLGrassTsx(i, u, c),
     rotation |-> Billboard(sh, RandomRotation(i), ToCameraXZ(i, u, c)),
     color  |-> VertexColor(sh, i, u, c),
     vColor |-> Shadowed(VertexColor(sh, i, u, c))]

----------------------------------------------------------------------------
(* The fragment shaders *)

Dot3(a, b) == MulDiv(a.x, b.x, Unit) + MulDiv(a.y, b.y, Unit) + MulDiv(a.z, b.z, Unit)

\* vec3 lightDir = normalize(vec3(0.5, 1.0, 0.3))
LightDir == Normalize(Vec(Unit \div 2, Unit, (3 * Unit) \div 10))

\* vNormal of a vertex: the plane's normal (0, 0, 1) with x = roundness * 0.75,
\* roundness = (uv.x - 0.5) * 2.0, normalized
VertexNormal(uvX) == Normalize(Vec(TruncDiv((2 * uvX - One) * 3 * Unit, 4 * One), 0, Unit))

\* the varying between the two edges of the blade, normalized by the fragment
FragmentNormal(uvX) ==
    Normalize(Vec(Mix(VertexNormal(0).x, VertexNormal(One).x, uvX), 0,
                  Mix(VertexNormal(0).z, VertexNormal(One).z, uvX)))

\* max(dot(a, b), 0.0) in 1/One
MaxDot(a, b) == IF Dot3(a, b) > 0 THEN (Dot3(a, b) * One) \div Unit ELSE 0

\* lighting = 0.33 + 0.7 * NdotL in WebGLGrass, 0.4 + 0.6 * NdotL in Grass
Lighting(sh, NdotL) ==
    IF sh = "App.tsx" THEN (4 * One) \div 10 + (6 * NdotL) \div 10
    ELSE (33 * One) \div 100 + (7 * NdotL) \div 10

Squared(x) == (x * x) \div One

\* pow(x, 128.0)
Pow128(x) == Squared(Squared(Squared(Squared(Squared(Squared(Squared(x)))))))

\* Grass: specular = pow(NdotH, 128.0) * 2.0 * (1.0 + smoothstep(0.3, 1.0, vUv.y) * 3.0);
\* WebGLGrass has no specular term
Specular(sh, NdotH, uvY) ==
    IF sh = "App.tsx"
    THEN (2 * Pow128(NdotH) * (One + 3 * Smoothstep((3 * One) \div 10, One, uvY))) \div One
    ELSE 0

\* Grass: the edge and tip fade of alpha, at least 0.1; WebGLGrass writes 1.
Alpha(sh, uvX, uvY) ==
    IF sh = "App.tsx"
    THEN Clamp(((One - Smoothstep((7 * One) \div 10, One, Abs(2 * uvX - One)))
                  * (One - Smoothstep(One \div 2, One, uvY) \div 10)) \div One,
               One \div 10, One)
    ELSE One

\* litColor = vColor * lighting + vec3(specular)
LitColor(vColor, lighting, specular) ==
    AddRgb(ScaleRgb(vColor, lighting),
           Rgb((specular * Tone) \div One, (specular * Tone) \div One, (specular * Tone) \div One))

\* main() of the fragment shader for the varyings vColor, vUv and vNormal and
\* the direction to the camera
FragmentMain(sh, vColor, uvX, uvY, normal, viewDir) ==
    [uvX      |-> uvX,
     normal   |-> normal,
     viewDir  |-> viewDir,
     lighting |-> Lighting(sh, MaxDot(normal, LightDir)),
     specular |-> Specular(sh, MaxDot(normal, Normalize(Add(LightDir, viewDir))), uvY),
     litColor |-> LitColor(vColor, Lighting(sh, MaxDot(normal, LightDir)),
                           Specular(sh, MaxDot(normal, Normalize(Add(LightDir, viewDir))), uvY)),
     alpha    |-> Alpha(sh, uvX, uvY)]

----------------------------------------------------------------------------
(* The frame loop and App *)

\* one tick of the frame loop begins: the useFrame callbacks run in the order
\* their components are mounted, Grass before KineticSphere, then the scene is drawn
StartFrame(ticks) ==
    /\ pc = "idle"
    /\ delta' = ticks
    /\ lagWrites' = 0
    /\ pc' = "grass"
    /\ UNCHANGED <<config, instance, vertex, shader, fragment, controls, rendered,
                   mesh, effect,
                   events, keys, isMousePressed, mouseTarget, velocity, position, roll,
                   spherePosition, pendingPosition, oldestTrailPosition,
                   uniforms, trailRate, frame, keyForce, pointerForce, emitted,
                   drawn, lastPointerEvent>>

\* the per-instance pass: the vertex shader reads the uniforms
Render ==
    /\ pc = "render"
    /\ drawn' = uniforms
    /\ frame' = frame + 1
    /\ pc' = "idle"
    /\ UNCHANGED <<config, instance, vertex, shader, fragment, controls, rendered,
                   mesh, effect,
                   events, keys, isMousePressed, mouseTarget, velocity, position, roll,
                   spherePosition, pendingPosition, oldestTrailPosition,
                   uniforms, trailRate, delta, keyForce, pointerForce, emitted,
                   lagWrites, lastPointerEvent>>

\* App renders the queued setSpherePosition: the prop of Grass becomes the
\* mesh's position object
AppRender ==
    /\ pc = "idle"
    /\ pendingPosition
    /\ spherePosition' = "mesh"
    /\ pendingPosition' = FALSE
    /\ UNCHANGED <<config, instance, vertex, shader, fragment, controls, rendered,
                   mesh, effect,
                   events, keys, isMousePressed, mouseTarget, velocity, position, roll,
                   oldestTrailPosition, uniforms, trailRate, pc, delta, frame,
                   keyForce, pointerForce, emitted, drawn, lagWrites,
                   lastPointerEvent>>

----------------------------------------------------------------------------
(* Specifications *)

\* the state after mounting, with the key flags held
Mounted(held) ==
    /\ keys = [k \in KeyNames |-> k \in held]
    /\ isMousePressed = FALSE
    /\ mouseTarget = NoTarget
    /\ velocity = Zero
    /\ position = StartPosition
    /\ roll = NoRoll
    /\ spherePosition = "initial"
    /\ pendingPosition = FALSE
    /\ oldestTrailPosition = Vec(0, Unit, 0)
    /\ uniforms = [spherePosition      |-> Vec(0, Unit, 0),
                   oldestTrailPosition |-> Vec(0, Unit, 0)]
    /\ trailRate \in {GrassRate, WebGLGrassRate}
    /\ pc = "idle"
    /\ delta = 0
    /\ frame = 0
    /\ keyForce = Zero
    /\ pointerForce = Zero
    /\ emitted = StartPosition
    /\ drawn = [spherePosition      |-> Vec(0, Unit, 0),
                oldestTrailPosition |-> Vec(0, Unit, 0)]
    /\ lagWrites = 0
    /\ lastPointerEvent = "none"
    /\ events = 0
    /\ config = MountedConfig
    /\ instance = NoInstance
    /\ vertex = NoVertex
    /\ MountedGrass

Init == Mounted({})

\* an input event arrives between two frames; a key or the pointer goes down
\* when it is up and up when it is down (a repeated event of the same kind
\* writes the values that are already there)
InputEvent ==
    \/ \E k \in KeyNames : ~keys[k] /\ handleKeyDown(k)
    \/ \E k \in KeyNames : keys[k] /\ handleKeyUp(k)
    \/ (~isMousePressed /\ handleMouseDown)
    \/ (isMousePressed /\ handleMouseUp)

Next ==
    \/ (events + frame < MaxSteps /\ InputEvent)
    \/ (events + frame < MaxSteps /\ \E t \in Deltas : StartFrame(t))
    \/ GrassUseFrame
    \/ \E hit \in GroundHits \cup {Miss} : KineticSphereUseFrame(hit)
    \/ Render
    \/ AppRender

Spec == Init /\ [][Next]_vars

\* The forward-key scenario: "w" is held from the start, nothing else is
\* pressed, every frame lasts 1/60 s, and App renders the position update
\* before the next frame
InitForward == Mounted({"w"})

NextForward ==
    \/ (frame < ForwardFrames /\ ~pendingPosition /\ StartFrame(1))
    \/ GrassUseFrame
    \/ KineticSphereUseFrame(Miss)
    \/ Render
    \/ AppRender

SpecForward == InitForward /\ [][NextForward]_vars

\* The straight-line scenario: no force and no damping act, the body keeps the
\* velocity it starts with (position.add(velocity * delta), y pinned), every
\* frame lasts the same delta, Grass already holds the mesh's position object
\* and the lag point starts on the lead point
LineVelocities == {Vec(0, 0, -Unit), Vec(3 * Unit, 0, 4 * Unit)}

InitLine ==
    /\ keys = [k \in KeyNames |-> FALSE]
    /\ isMousePressed = FALSE
    /\ mouseTarget = NoTarget
    /\ velocity \in LineVelocities
    /\ position = StartPosition
    /\ roll = NoRoll
    /\ spherePosition = "mesh"
    /\ pendingPosition = FALSE
    /\ oldestTrailPosition = Vec(0, Unit, 0)
    /\ uniforms = [spherePosition      |-> Vec(0, Unit, 0),
                   oldestTrailPosition |-> Vec(0, Unit, 0)]
    /\ trailRate \in {GrassRate, WebGLGrassRate}
    /\ pc = "idle"
    /\ delta \in Deltas
    /\ frame = 0
    /\ keyForce = Zero
    /\ pointerForce = Zero
    /\ emitted = StartPosition
    /\ drawn = [spherePosition      |-> Vec(0, Unit, 0),
                oldestTrailPosition |-> Vec(0, Unit, 0)]
    /\ lagWrites = 0
    /\ lastPointerEvent = "none"
    /\ events = 0
    /\ config = MountedConfig
    /\ instance = NoInstance
    /\ vertex = NoVertex
    /\ MountedGrass

\* KineticSphere's useFrame for a body that coasts: the position update and
\* the pin of the frame, the velocity left as it is
CoastFrame ==
    /\ pc = "sphere"
    /\ position' = PinToGround(Advance(position, velocity, delta))
    /\ emitted' = position'
    /\ pc' = "render"
    /\ UNCHANGED <<config, instance, vertex, shader, fragment, controls, rendered,
                   mesh, effect,
                   events, keys, isMousePressed, mouseTarget, velocity, roll,
                   spherePosition, pendingPosition, oldestTrailPosition,
                   uniforms, trailRate, delta, frame, keyForce, pointerForce,
                   drawn, lagWrites, lastPointerEvent>>

NextLine ==
    \/ (frame < LineFrames /\ StartFrame(delta))
    \/ GrassUseFrame
    \/ CoastFrame
    \/ Render

SpecLine == InitLine /\ [][NextLine]_vars

\* The vertex shader on its own: the scene is at rest, the shader inputs are
\* any of the values below, and main() runs for one vertex of one instance
Trail(lead, lag) == [spherePosition |-> lead, oldestTrailPosition |-> lag]

\* a point of the plane the body moves in, given in hundredths of a world unit
OnPlane(x, z) == Vec((x * Unit) \div 100, RestHeight, (z * Unit) \div 100)

\* the trail at rest and after a long move; around the corner of the 50 field,
\* where the first instances are placed: the body at rest on instance 0, the
\* lag point on it, the lead point on it, the segment through it, a segment
\* shorter than 0.001, one shorter than 0.1, one across the diagonal; and
\* segments that start on instance 0 of the 10 field and of the 200 field
TrailStates ==
    { Trail(OnPlane(0, 0), OnPlane(0, 0)),
      Trail(OnPlane(300, 400), OnPlane(0, 0)),
      Trail(OnPlane(-2500, -2500), OnPlane(-2500, -2500)),
      Trail(OnPlane(-2200, -2100), OnPlane(-2500, -2500)),
      Trail(OnPlane(-2500, -2500), OnPlane(-2300, -2400)),
      Trail(OnPlane(-2300, -2300), OnPlane(-2700, -2700)),
      Trail(Add(OnPlane(-2400, -2400), Vec(2, 0, 1)), OnPlane(-2400, -2400)),
      Trail(OnPlane(-2395, -2400), OnPlane(-2400, -2400)),
      Trail(OnPlane(-2000, -2400), OnPlane(-2400, -2000)),
      Trail(OnPlane(-400, -450), OnPlane(-500, -500)),
      Trail(OnPlane(-9900, -9950), OnPlane(-10000, -10000)) }

\* the instances drawn: gl_InstanceID runs from 0 to instanceCount - 1
Indices(c) ==
    { n \in (0 .. MaxIndex) \cup {999, 5489, 13404, 75000, 149999, 499999} : n < c.instanceCount }

\* uv.y of the vertices of the blade geometry: PlaneGeometry(0.1, 0.6, 1, 8) in
\* Grass, yPositions in WebGLGrass
UvYs(variant) ==
    IF variant = "Grass" THEN { (n * One) \div 8 : n \in 0 .. 8 }
    ELSE {0, One \div 4, One \div 2, (8 * One) \div 10, (9 * One) \div 10, One}

\* state.clock.elapsedTime, in ticks
ElapsedTimes == {0, 90, 60 * TicksPerSecond}

Cameras == {StartCamera, Vec(-4 * Unit, 2 * Unit, 3 * Unit)}

\* the values of the controls of WebGLGrass: the defaults and the ends of the ranges
WebGLGrassConfigs ==
    { [time |-> t, fieldSize |-> k[1], instanceCount |-> k[2],
       windSpeed |-> k[3], grassHeight |-> k[4], cameraPosition |-> cam] :
         t \in ElapsedTimes, cam \in Cameras,
         k \in { <<50, 150000, 13, 130>>, <<50, 150000, 0, 130>>,
                 <<50, 500000, 0, 400>>,
                 <<10, 1000, 50, 70>>, <<200, 500000, 13, 130>>,
                 <<200, 1000, 0, 70>> } }

Configs(variant) ==
    IF variant = "Grass"
    THEN { GrassConfig(t, cam) : t \in ElapsedTimes, cam \in Cameras }
    ELSE WebGLGrassConfigs

InitShader ==
    /\ keys = [k \in KeyNames |-> FALSE]
    /\ isMousePressed = FALSE
    /\ mouseTarget = NoTarget
    /\ velocity = Zero
    /\ uniforms \in TrailStates
    /\ position = uniforms.spherePosition
    /\ roll = NoRoll
    /\ spherePosition = "mesh"
    /\ pendingPosition = FALSE
    /\ oldestTrailPosition = uniforms.oldestTrailPosition
    /\ trailRate \in {GrassRate, WebGLGrassRate}
    /\ pc = "render"
    /\ delta = 1
    /\ frame = 1
    /\ keyForce = Zero
    /\ pointerForce = Zero
    /\ emitted = position
    /\ drawn = uniforms
    /\ lagWrites = 1
    /\ lastPointerEvent = "none"
    /\ events = 0
    /\ config \in Configs(Variant)
    /\ \E n \in Indices(config), y \in UvYs(Variant) : instance = [idx |-> n, uvY |-> y]
    /\ vertex = NoVertex
    /\ MountedGrass

\* the per-instance pass runs main() for the vertex
VertexShader ==
    /\ vertex = NoVertex
    /\ \E zeroNormalized \in NormalizeOfZero :
          vertex' = VertexMain(instance, uniforms, config, zeroNormalized)
    /\ UNCHANGED <<keys, isMousePressed, mouseTarget, velocity, position, roll,
                   spherePosition, pendingPosition, oldestTrailPosition, uniforms,
                   trailRate, pc, delta, frame, keyForce, pointerForce, emitted,
                   drawn, lagWrites, lastPointerEvent, events, config, instance,
                   shader, fragment, controls, rendered, mesh, effect>>

NextShader == VertexShader

SpecShader == InitShader /\ [][NextShader]_vars

\* the shader files a variant can be built from
Shaders(variant) ==
    IF variant = "Grass" THEN {"App.tsx"} ELSE {"part_000", "WebGLGrass.tsx"}

\* uv.y of the blade geometry of a shader file
UvYsOf(sh) == IF sh = "part_000" THEN UvYs("WebGLGrass") ELSE UvYs("Grass")

\* the lead point at rest, on an instance of the 50 field, and 1.55 and 1.9
\* away from it: between the influence radius and the shadow radius of
\* WebGLGrass and of Grass
SurfaceTrails ==
    { Trail(OnPlane(0, 0), OnPlane(0, 0)),
      Trail(OnPlane(90, -70), OnPlane(0, 0)),
      Trail(OnPlane(245, -70), OnPlane(100, 0)),
      Trail(OnPlane(280, -70), OnPlane(100, 0)) }

\* the inputs of the colour pass: the 50 field with the wind speed at the ends
\* of its range and at the default
SurfaceConfigs(sh) ==
    IF sh = "App.tsx" THEN { GrassConfig(t, cam) : t \in {0, 90}, cam \in Cameras }
    ELSE { [time |-> t, fieldSize |-> 50, instanceCount |-> 150000,
            windSpeed |-> w, grassHeight |-> 130, cameraPosition |-> cam] :
              t \in {0, 90}, cam \in Cameras, w \in {0, 13, 50} }

\* the instances of the colour pass: those of the vertex pass, two whose hue
\* hash is on a threshold and one whose colour and saturation hashes are high
SurfaceIndices(c) == Indices(c) \cup { n \in {341, 742, 90554} : n < c.instanceCount }

InitShade ==
    /\ keys = [k \in KeyNames |-> FALSE]
    /\ isMousePressed = FALSE
    /\ mouseTarget = NoTarget
    /\ velocity = Zero
    /\ uniforms \in SurfaceTrails
    /\ position = uniforms.spherePosition
    /\ roll = NoRoll
    /\ spherePosition = "mesh"
    /\ pendingPosition = FALSE
    /\ oldestTrailPosition = uniforms.oldestTrailPosition
    /\ trailRate \in {GrassRate, WebGLGrassRate}
    /\ pc = "render"
    /\ delta = 1
    /\ frame = 1
    /\ keyForce = Zero
    /\ pointerForce = Zero
    /\ emitted = position
    /\ drawn = uniforms
    /\ lagWrites = 1
    /\ lastPointerEvent = "none"
    /\ events = 0
    /\ shader \in Shaders(Variant)
    /\ config \in SurfaceConfigs(shader)
    /\ \E n \in SurfaceIndices(config), y \in UvYsOf(shader) : instance = [idx |-> n, uvY |-> y]
    /\ vertex = NoVertex
    /\ fragment = NoFragment
    /\ controls = (IF Variant = "Grass" THEN NoControls ELSE DefaultControls)
    /\ rendered = controls
    /\ mesh = 1
    /\ effect = FALSE

\* the vertex stage runs main() for the vertex
ShadeVertex ==
    /\ vertex = NoVertex
    /\ vertex' = SurfaceMain(shader, instance, uniforms, config)
    /\ UNCHANGED <<keys, isMousePressed, mouseTarget, velocity, position, roll,
                   spherePosition, pendingPosition, oldestTrailPosition, uniforms,
                   trailRate, pc, delta, frame, keyForce, pointerForce, emitted,
                   drawn, lagWrites, lastPointerEvent, events, config, instance,
                   shader, fragment, controls, rendered, mesh, effect>>

\* vUv.x of the fragments: the two edges of the blade and its middle
UvXs == {0, One \div 2, One}

\* normalize(cameraPosition - vWorldPosition): the camera of the orbit controls
\* can be panned and zoomed to any side of a blade: seen from the start camera,
\* level from the front, and from below along the light mirrored at the edge
\* normal. Only Grass reads the direction.
ViewDirs(sh) ==
    IF sh = "App.tsx"
    THEN { Normalize(StartCamera), Vec(0, 0, Unit),
           Normalize(Sub(MultiplyScalar(VertexNormal(One), 2 * Dot3(VertexNormal(One), LightDir), Unit), LightDir)) }
    ELSE { Normalize(StartCamera) }

\* the fragment stage runs main() for a fragment of the blade at the height of
\* the vertex
ShadeFragment(uvX, viewDir) ==
    /\ vertex # NoVertex
    /\ fragment = NoFragment
    /\ fragment' = FragmentMain(shader, vertex.vColor, uvX, instance.uvY, FragmentNormal(uvX), viewDir)
    /\ UNCHANGED <<keys, isMousePressed, mouseTarget, velocity, position, roll,
                   spherePosition, pendingPosition, oldestTrailPosition, uniforms,
                   trailRate, pc, delta, frame, keyForce, pointerForce, emitted,
                   drawn, lagWrites, lastPointerEvent, events, config, instance,
                   vertex, shader, controls, rendered, mesh, effect>>

NextShade ==
    \/ ShadeVertex
    \/ \E uvX \in UvXs : \E viewDir \in ViewDirs(shader) : ShadeFragment(uvX, viewDir)

SpecShade == InitShade /\ [][NextShade]_vars

----------------------------------------------------------------------------
(* WebGLGrass: the controls panel, the renders of the component and its     *)
(* uniform-update effect                                                   *)

\* changes of the panel the specification follows
MaxChanges == 4

\* values of the four controls inside their ranges: defaults and range ends
ControlValues ==
    [bladeCount  |-> {1000, 150000, 500000},
     bladeHeight |-> {130, 400},
     fieldSize   |-> {10, 50, 200},
     windSpeed   |-> {0, 13}]

ControlNames == {"bladeCount", "bladeHeight", "fieldSize", "windSpeed"}

\* the body of the effect: the four uniforms take the values of the render
\* that scheduled it
UniformsUpdated(c, r) ==
    [c EXCEPT !.fieldSize = r.fieldSize, !.instanceCount = r.bladeCount,
              !.windSpeed = r.windSpeed, !.grassHeight = r.bladeHeight]

InitControls ==
    /\ keys = [k \in KeyNames |-> FALSE]
    /\ isMousePressed = FALSE
    /\ mouseTarget = NoTarget
    /\ velocity = Zero
    /\ position = StartPosition
    /\ roll = NoRoll
    /\ spherePosition = "initial"
    /\ pendingPosition = FALSE
    /\ oldestTrailPosition = Vec(0, Unit, 0)
    /\ uniforms = [spherePosition      |-> Vec(0, Unit, 0),
                   oldestTrailPosition |-> Vec(0, Unit, 0)]
    /\ trailRate = WebGLGrassRate
    /\ pc = "idle"
    /\ delta = 0
    /\ frame = 0
    /\ keyForce = Zero
    /\ pointerForce = Zero
    /\ emitted = StartPosition
    /\ drawn = uniforms
    /\ lagWrites = 0
    /\ lastPointerEvent = "none"
    /\ events = 0
    /\ config = MountedConfig
    /\ instance = NoInstance
    /\ vertex = NoVertex
    /\ shader \in Shaders(Variant)
    /\ fragment = NoFragment
    /\ controls = DefaultControls
    /\ rendered = controls
    /\ mesh = 1
    /\ effect = FALSE

\* the user moves one control of the panel to another value
SetControl(name, value) ==
    /\ events < MaxChanges
    /\ controls[name] # value
    /\ controls' = [controls EXCEPT ![name] = value]
    /\ events' = events + 1
    /\ UNCHANGED <<keys, isMousePressed, mouseTarget, velocity, position, roll,
                   spherePosition, pendingPosition, oldestTrailPosition, uniforms,
                   trailRate, pc, delta, frame, keyForce, pointerForce, emitted,
                   drawn, lagWrites, lastPointerEvent, config, instance, vertex,
                   shader, fragment, rendered, mesh, effect>>

\* the component renders with the values of the panel: an effect still pending
\* from the render before is flushed first, the instancedMesh element is
\* replaced when its key (bladeCount) differs, and the effect is scheduled as
\* one of its dependencies changed
WebGLGrassRender ==
    /\ rendered # controls
    /\ config' = (IF effect THEN UniformsUpdated(config, rendered) ELSE config)
    /\ rendered' = controls
    /\ mesh' = (IF controls.bladeCount # rendered.bladeCount THEN mesh + 1 ELSE mesh)
    /\ effect' = TRUE
    /\ UNCHANGED <<keys, isMousePressed, mouseTarget, velocity, position, roll,
                   spherePosition, pendingPosition, oldestTrailPosition, uniforms,
                   trailRate, pc, delta, frame, keyForce, pointerForce, emitted,
                   drawn, lagWrites, lastPointerEvent, events, instance, vertex,
                   shader, fragment, controls>>

\* the effect runs: meshRef.current is the mounted mesh, its material holds
\* the memoised uniforms object
UpdateUniforms ==
    /\ effect
    /\ config' = UniformsUpdated(config, rendered)
    /\ effect' = FALSE
    /\ UNCHANGED <<keys, isMousePressed, mouseTarget, velocity, position, roll,
                   spherePosition, pendingPosition, oldestTrailPosition, uniforms,
                   trailRate, pc, delta, frame, keyForce, pointerForce, emitted,
                   drawn, lagWrites, lastPointerEvent, events, instance, vertex,
                   shader, fragment, controls, rendered, mesh>>

NextControls ==
    \/ \E name \in ControlNames : \E value \in ControlValues[name] : SetControl(name, value)
    \/ WebGLGrassRender
    \/ UpdateUniforms

SpecControls == InitControls /\ [][NextControls]_vars

----------------------------------------------------------------------------
(* Properties *)

\* the step in which the useFrame callback of KineticSphere runs
SphereStep == pc = "sphere" /\ pc' = "render"

\* the step in which the useFrame callback of Grass runs
GrassStep == pc = "grass" /\ pc' = "sphere"

\* the step in which the per-instance pass runs
RenderStep == pc = "render" /\ pc' = "idle"

Sign(n) == IF n > 0 THEN 1 ELSE IF n < 0 THEN -1 ELSE 0

Flag(b) == IF b THEN 1 ELSE 0

\* C1: a pointer release clears the target and the engaged flag, and every
\* frame that runs while the last pointer event is a release adds no
\* pointer-directed force.
C1_ReleaseStopsPointerForce ==
    [][ /\ (lastPointerEvent' = "up" =>
               mouseTarget' = NoTarget /\ ~isMousePressed')
        /\ (SphereStep /\ lastPointerEvent = "up" => pointerForce' = Zero)
      ]_vars

\* a frame has run after a release, and the body still coasts on the velocity
\* the pointer gave it before the release (no key was ever pressed)
C1_Witness ==
    /\ pc = "render"
    /\ lastPointerEvent = "up"
    /\ events = 2
    /\ velocity # Zero
    /\ pointerForce = Zero

\* C2: in each frame the pointer force is forceStrength times the normalized
\* horizontal direction from the body to the target when the pointer is
\* engaged and a target exists, and zero otherwise; its vertical component is
\* always 0, and for a target that is not straight below the body its
\* magnitude is forceStrength.
C2_PointerForce ==
    [][ SphereStep =>
          LET engaged == isMousePressed /\ mouseTarget' # NoTarget
              toward  == Vec(mouseTarget'.x - position.x, 0,
                             mouseTarget'.z - position.z)
              F       == forceStrength * Unit
          IN  /\ pointerForce'.y = 0
              /\ ~engaged => pointerForce' = Zero
              /\ engaged =>
                   /\ pointerForce' =
                        MultiplyScalar(Normalize(toward), forceStrength, 1)
                   /\ Sign(pointerForce'.x) * Sign(toward.x) >= 0
                   /\ Sign(pointerForce'.z) * Sign(toward.z) >= 0
                   /\ toward # Zero =>
                        (F - Length(pointerForce')) \in 0..(F \div 1000)
      ]_vars

\* a frame has run with the pointer engaged on a target off both axes
C2_Witness ==
    /\ pc = "render"
    /\ isMousePressed
    /\ mouseTarget # NoTarget
    /\ pointerForce.x # 0
    /\ pointerForce.z # 0

\* C3: the key force is the sum of one contribution of forceStrength per held
\* key (w: -z, s: +z, a: -x, d: +x); an opposing pair cancels on its axis and
\* the key force has no vertical component.
C3_KeyForce ==
    pc = "render" =>
        /\ keyForce = Vec(forceStrength * Unit * (Flag(keys.d) - Flag(keys.a)),
                          0,
                          forceStrength * Unit * (Flag(keys.s) - Flag(keys.w)))
        /\ (keys.w /\ keys.s => keyForce.z = 0)
        /\ (keys.a /\ keys.d => keyForce.x = 0)

\* a frame has run with w, s and d held: the pair cancels, d remains
C3_Witness ==
    /\ pc = "render"
    /\ keys.w /\ keys.s /\ keys.d /\ ~keys.a
    /\ keyForce = Vec(forceStrength * Unit, 0, 0)

\* C4: a frame computes velocity' = (velocity + force * dt) * 0.98 and then
\* position' = position + velocity' * dt, with the damping applied once
\* whatever dt is; with zero force the velocity after the frame is 0.98 times
\* the velocity before it.
C4_Integration ==
    [][ SphereStep =>
          LET force     == Add(keyForce', pointerForce')
              Times(c)     == TruncDiv(c * delta, TicksPerSecond)
              Damped(c) == TruncDiv(c * DampingNum, DampingDen)
              Coasts(before, after) ==
                  /\ Sign(after) = Sign(Damped(before))
                  /\ (DampingNum * Abs(before) - DampingDen * Abs(after))
                        \in 0..(DampingDen - 1)
          IN  /\ velocity' = Vec(Damped(velocity.x + Times(force.x)),
                                 Damped(velocity.y + Times(force.y)),
                                 Damped(velocity.z + Times(force.z)))
              /\ position' = Vec(position.x + Times(velocity'.x),
                                 position.y + Times(velocity'.y),
                                 position.z + Times(velocity'.z))
              /\ force = Zero =>
                   /\ Coasts(velocity.x, velocity'.x)
                   /\ Coasts(velocity.y, velocity'.y)
                   /\ Coasts(velocity.z, velocity'.z)
      ]_vars

\* a frame of two seconds has run without any force on a moving body
C4_Witness ==
    /\ pc = "render"
    /\ delta = 2 * TicksPerSecond
    /\ keyForce = Zero
    /\ pointerForce = Zero
    /\ velocity # Zero

\* C5: initially and at the end of every frame the body's vertical position
\* is the resting height 1.0.
C5_RestingHeight ==
    /\ position.y = Unit
    /\ emitted.y = Unit

\* frames have run and the body has moved
C5_Witness ==
    /\ pc = "idle"
    /\ frame > 0
    /\ position # StartPosition
    /\ velocity # Zero

\* the speed of the forward-key scenario: the body moves along -z only
ForwardSpeed == Abs(velocity.z)

\* force / (1 - damping) * dt with dt = 1/60: 8 / 0.02 / 60 world units a second
ClaimedLimit ==
    (forceStrength * Unit * DampingDen) \div
        ((DampingDen - DampingNum) * TicksPerSecond)

\* damping * force / (1 - damping) * dt: the fixed point of v = (v + force * dt) * 0.98
SteadySpeed == (ClaimedLimit * DampingNum) \div DampingDen

\* 0.02 world units a second
Tolerance == Unit \div 50

\* C6 (as amended): with only "w" held and dt = 1/60 the speed grows from frame
\* to frame, strictly while it is below the steady speed, never exceeds
\* force / (1 - damping) * dt, and settles at damping * force / (1 - damping) * dt,
\* which is 0.98 of that value.
C6_ForwardSpeed ==
    /\ [](velocity.x = 0 /\ velocity.y = 0)
    /\ [](ForwardSpeed <= SteadySpeed /\ SteadySpeed < ClaimedLimit)
    /\ [](frame >= SettleFrames => SteadySpeed - ForwardSpeed <= Tolerance)
    /\ [][ SphereStep =>
             /\ ForwardSpeed' >= ForwardSpeed
             /\ (ForwardSpeed < SteadySpeed - Tolerance =>
                    ForwardSpeed' > ForwardSpeed)
         ]_vars

\* "w" has been held for SettleFrames frames and the speed has settled
C6_Witness ==
    /\ pc = "idle"
    /\ frame >= SettleFrames
    /\ keys.w
    /\ ForwardSpeed > 0
    /\ SteadySpeed - ForwardSpeed <= Tolerance

\* C6 as stated: the speed never exceeds force / (1 - damping) * dt and
\* approaches that value, so after SettleFrames frames it is within Tolerance
\* of it.
C6_ApproachesClaimedLimit ==
    /\ ForwardSpeed <= ClaimedLimit
    /\ (frame >= SettleFrames => ClaimedLimit - ForwardSpeed <= Tolerance)

\* C7: a frame applies a rolling rotation exactly when the speed after the
\* integration exceeds 0.05; the axis is (-velocity.z, 0, velocity.x)
\* normalized, a unit vector, and the angle is speed * dt * 0.05; at zero
\* velocity, and at any speed up to 0.05, nothing is rotated and no axis is
\* normalized.
C7_RollingGuard ==
    pc = "render" =>
        LET speed == Length(velocity)
        IN  /\ roll.applied <=> speed > RollThreshold
            /\ velocity = Zero => ~roll.applied
            /\ ~roll.applied => roll = NoRoll
            /\ roll.applied =>
                 /\ velocity.x # 0 \/ velocity.z # 0
                 /\ roll.axis = Normalize(Vec(-velocity.z, 0, velocity.x))
                 /\ roll.axis.y = 0
                 /\ Sign(roll.axis.x) * Sign(velocity.z) <= 0
                 /\ Sign(roll.axis.z) * Sign(velocity.x) >= 0
                 /\ (Unit - Length(roll.axis)) \in 0..(Unit \div 500)
                 /\ roll.angle = TruncDiv(speed * delta, RollDivisor)

\* a frame has rotated the body about an axis off both coordinate axes
C7_Witness ==
    /\ pc = "render"
    /\ roll.applied
    /\ roll.axis.x # 0
    /\ roll.axis.z # 0
    /\ roll.angle > 0

\* C8: in every frame the lead point the per-instance pass reads is the
\* position the Kinetic Controller emitted in that frame.
C8_LeadIsEmittedPosition ==
    (pc = "idle" /\ frame > 0) => drawn.spherePosition = emitted

\* what the pass reads instead: the position before the frame's integration,
\* or the start position while App has not rendered the first update
C8_LeadIsPositionBeforeFrame ==
    [][ GrassStep =>
          uniforms'.spherePosition \in {position, StartPosition} ]_vars

\* C9: the lag point and the two trail uniforms are written by the trail
\* updater only, the lag point once a frame; the updater writes the lead
\* point and the lag point it has just advanced toward that lead point in the
\* same step, and the per-instance pass reads that pair.
C9_TrailWrittenOnceTogether ==
    [][ /\ (oldestTrailPosition' # oldestTrailPosition \/ uniforms' # uniforms
               => GrassStep)
        /\ (lagWrites' # lagWrites => GrassStep \/ (pc = "idle" /\ lagWrites' = 0))
        /\ (GrassStep =>
               /\ lagWrites' = 1
               /\ uniforms'.oldestTrailPosition = oldestTrailPosition'
               /\ oldestTrailPosition' =
                    Lerp(oldestTrailPosition, uniforms'.spherePosition,
                         delta, (TicksPerSecond * 100) \div trailRate))
        /\ (RenderStep =>
               /\ lagWrites = 1
               /\ drawn' = uniforms
               /\ drawn'.oldestTrailPosition = oldestTrailPosition)
      ]_vars

\* the pass is about to read a lead point and a lag point that has moved
\* toward it in this frame without reaching it
C9_Witness ==
    /\ pc = "render"
    /\ lagWrites = 1
    /\ oldestTrailPosition # StartPosition
    /\ uniforms.oldestTrailPosition = oldestTrailPosition
    /\ uniforms.spherePosition # uniforms.oldestTrailPosition

\* C10: the trail update is lagPoint' = lerp(lagPoint, leadPoint, rate * dt),
\* rate 0.75 or 0.6; on every axis the lag point moves toward the lead point
\* by at most rate * dt times its distance to it, so the distance it travels
\* is at most rate * dt * |leadPoint - lagPoint|.
C10_TrailStepBounded ==
    [][ GrassStep =>
          LET lead    == uniforms'.spherePosition
              \* rate * dt is delta / perUnit: delta / 80 or delta / 100
              perUnit == (TicksPerSecond * 100) \div trailRate
              Step(c) == TruncDiv(c * delta, perUnit)
              Bounded(from, to, goal) ==
                  /\ to - from = Step(goal - from)
                  /\ Sign(to - from) * Sign(goal - from) >= 0
                  /\ Abs(to - from) * perUnit <= delta * Abs(goal - from)
          IN  /\ trailRate \in {GrassRate, WebGLGrassRate}
              /\ perUnit * trailRate = TicksPerSecond * 100
              /\ Bounded(oldestTrailPosition.x, oldestTrailPosition'.x, lead.x)
              /\ Bounded(oldestTrailPosition.y, oldestTrailPosition'.y, lead.y)
              /\ Bounded(oldestTrailPosition.z, oldestTrailPosition'.z, lead.z)
      ]_vars

\* the trail updater has moved the lag point part of the way to the lead point
C10_Witness ==
    /\ pc = "sphere"
    /\ lagWrites = 1
    /\ oldestTrailPosition # StartPosition
    /\ oldestTrailPosition # uniforms.spherePosition

\* the lead point's displacement in a frame of the straight-line scenario
LineDisplacement == MultiplyScalar(velocity, delta, TicksPerSecond)

\* the lag-to-lead distance on the axis c, as the per-instance pass reads it
LineGap(u) == Vec(Abs(u.spherePosition.x - u.oldestTrailPosition.x), 0,
                  Abs(u.spherePosition.z - u.oldestTrailPosition.z))

\* C11: for a body moving in a straight line at constant speed with a fixed
\* frame delta, the lag point starting on the lead point, the lag-to-lead
\* distance converges (it stands still from frame LineSettle on) and in no
\* frame does the lag point move farther than the lead point moves in a frame.
C11_LagNeverFasterThanLead ==
    [][ GrassStep =>
          /\ Abs(oldestTrailPosition'.x - oldestTrailPosition.x)
                <= Abs(LineDisplacement.x)
          /\ Abs(oldestTrailPosition'.z - oldestTrailPosition.z)
                <= Abs(LineDisplacement.z)
          /\ (frame >= LineSettle => LineGap(uniforms') = LineGap(uniforms))
      ]_vars

\* the same, for the frames with rate * delta <= 1 only
C11_ShortFrames ==
    [][ (GrassStep /\ delta <= TrailDivisor(trailRate)) =>
          /\ Abs(oldestTrailPosition'.x - oldestTrailPosition.x)
                <= Abs(LineDisplacement.x)
          /\ Abs(oldestTrailPosition'.z - oldestTrailPosition.z)
                <= Abs(LineDisplacement.z)
          /\ (frame >= LineSettle => LineGap(uniforms') = LineGap(uniforms))
      ]_vars

\* a frame of the scenario in which the lag point trails the moving lead point
C11_Witness ==
    /\ pc = "sphere"
    /\ frame >= LineSettle
    /\ velocity # Zero
    /\ oldestTrailPosition # uniforms.spherePosition
    /\ oldestTrailPosition # StartPosition

\* the inputs of either variant, reachable or not from the mounted one
AnyConfig == Configs("Grass") \cup Configs("WebGLGrass")

\* C12: the placement of an instance is a function of (index, fieldSize) only:
\* whatever the time, blade count, blade height, wind speed, camera position,
\* lead point and lag point are, and for whichever vertex of the instance, an
\* evaluation with the same index and fieldSize gives the placement this one gave.
C12_PlacementOfIndexAndFieldSize ==
    vertex # NoVertex =>
        /\ \A c \in AnyConfig :
              GrassPos(instance, uniforms,
                       [c EXCEPT !.fieldSize = config.fieldSize]) = vertex.grassPos
        /\ \A u \in TrailStates : GrassPos(instance, u, config) = vertex.grassPos
        /\ \A y \in UvYs(Variant) :
              GrassPos([instance EXCEPT !.uvY = y], uniforms, config) = vertex.grassPos

\* an instance away from the corner of the field has been placed while the
\* body has moved and time has passed
C12_Witness ==
    /\ vertex # NoVertex
    /\ instance.idx > MaxIndex
    /\ vertex.grassPos.x # vertex.grassPos.z
    /\ config.time > 0
    /\ config.windSpeed > 0
    /\ uniforms.spherePosition # uniforms.oldestTrailPosition

\* C13: for every index in [0, instanceCount) and every fieldSize > 0 each hash
\* component lies in [0, 1), the placement is (hash - 0.5) * fieldSize, and so
\* (x, z) lies in [-fieldSize/2, fieldSize/2]^2.
C13_PlacementInField ==
    vertex # NoVertex =>
        LET half == (config.fieldSize * Unit) \div 2
            Placed(h) == TruncDiv((h - One \div 2) * config.fieldSize * Unit, One)
        IN  /\ instance.idx \in 0 .. (config.instanceCount - 1)
            /\ config.fieldSize > 0
            /\ vertex.randPos.x \in 0 .. (One - 1)
            /\ vertex.randPos.y \in 0 .. (One - 1)
            /\ vertex.grassPos = Vec(Placed(vertex.randPos.x), 0, Placed(vertex.randPos.y))
            /\ vertex.grassPos.x \in (-half) .. half
            /\ vertex.grassPos.z \in (-half) .. half

\* an instance placed in the far half of the largest field on one axis and in
\* the near half on the other
C13_Witness ==
    /\ vertex # NoVertex
    /\ config.fieldSize = 200
    /\ vertex.randPos.x > One \div 2
    /\ vertex.randPos.y < One \div 2
    /\ vertex.grassPos.x > 0
    /\ vertex.grassPos.z < 0

\* the arguments of the hash calls of an evaluation, one per attribute and component
HashArguments(v) ==
    { <<a, n>> : a \in DOMAIN v.hashInputs, n \in 1 .. 2 } \cap
    { <<a, n>> \in (DOMAIN Seeds) \X (1 .. 2) : n \in DOMAIN Seeds[a] }

\* C14: for every index in [0, instanceCount) the hash inputs of any two different
\* attributes differ, each being the index times its own seed, so no two
\* attributes of an instance are drawn from the same hash input.
C14_DistinctHashInputs ==
    vertex # NoVertex =>
        \A p, q \in HashArguments(vertex) :
            /\ vertex.hashInputs[p[1]][p[2]] = instance.idx * Seeds[p[1]][p[2]]
            /\ (p # q => vertex.hashInputs[p[1]][p[2]] # vertex.hashInputs[q[1]][q[2]])

\* the same for the instances after the first
C14_DistinctFromIndexOne ==
    (vertex # NoVertex /\ instance.idx > 0) =>
        \A p, q \in HashArguments(vertex) :
            /\ vertex.hashInputs[p[1]][p[2]] = instance.idx * Seeds[p[1]][p[2]]
            /\ (p # q => vertex.hashInputs[p[1]][p[2]] # vertex.hashInputs[q[1]][q[2]])

\* C15: for every lead and lag point, the two equal included, and every
\* instance position, one on the segment included, the trail bend divides by
\* no zero: every denominator is at least the positive epsilon, and the bend is
\* a defined, finite vector.
C15_NoDivisionByZero ==
    vertex # NoVertex =>
        /\ \A d \in vertex.trail.denominators : d >= Epsilon
        /\ vertex.trail.bend # NaN
        /\ vertex.trail.bend \in [x : -(2 * Unit) .. 2 * Unit,
                                  y : -(2 * Unit) .. 2 * Unit,
                                  z : -(2 * Unit) .. 2 * Unit]

\* the same for the WebGLGrass shader alone
C15_WebGLGrassClamped ==
    (vertex # NoVertex /\ Variant = "WebGLGrass") =>
        /\ \A d \in vertex.trail.denominators : d >= Epsilon
        /\ vertex.trail.bend # NaN
        /\ vertex.trail.bend \in [x : -(2 * Unit) .. 2 * Unit,
                                  y : -(2 * Unit) .. 2 * Unit,
                                  z : -(2 * Unit) .. 2 * Unit]

\* WebGLGrass has bent a vertex of an instance that lies on the segment, and has
\* run for a lag point on the lead point
C15_WitnessOnSegment ==
    /\ vertex # NoVertex
    /\ Variant = "WebGLGrass"
    /\ vertex.trail.toPoint = Zero
    /\ vertex.trail.lineLength > Unit

C15_WitnessNoSegment ==
    /\ vertex # NoVertex
    /\ Variant = "WebGLGrass"
    /\ vertex.trail.lineLength = 0
    /\ vertex.trail.toPoint = Zero

\* the geometry C16 speaks of, from the instance position g and the trail u: the
\* segment length, the projection of g on the segment lag -> lead clamped to
\* [0, length], the distance d of g to that closest point, and t = projection / length
Segment(u, g) ==
    LET start   == XZ(u.oldestTrailPosition)
        line    == Sub(XZ(u.spherePosition), start)
        len     == Length(line)
        dir     == Normalize(line)
        proj    == Clamp(Dot(Sub(g, start), dir), 0, len)
        closest == Add(start, Vec(MulDiv(dir.x, proj, Unit), 0,
                                  MulDiv(dir.z, proj, Unit)))
    IN  [length |-> len, closest |-> closest,
         d |-> Length(Sub(g, closest)),
         t |-> IF len = 0 THEN 0 ELSE (proj * One) \div len]

\* smoothstep(0, 1, 1 - d/R)
RadialFalloff(d) == Smoothstep(0, One, One - (d * One) \div InfluenceRadius)

\* rounding of the fixed-point strength, in 1/One
StrengthTolerance == (3 * One) \div 1000

\* C16: with d the distance to the closest point of the segment and t the
\* clamped projection divided by the segment length, the trail bend strength is
\* smoothstep(0,1,1 - d/R) * smoothstep(0,1,t) for d < R and zero for d >= R; it
\* does not increase with d, is zero at the lag end (t = 0) and full at the
\* lead end (t = 1).
C16_TrailStrength ==
    (vertex # NoVertex /\ Segment(uniforms, vertex.grassPos).length > 0) =>
        LET seg      == Segment(uniforms, vertex.grassPos)
            strength == vertex.trail.bendStrength
            claimed  == IF seg.d < InfluenceRadius
                        THEN (RadialFalloff(seg.d) * Smoothstep(0, One, seg.t)) \div One
                        ELSE 0
        IN  /\ Abs(strength - claimed) <= StrengthTolerance
            /\ (seg.d >= InfluenceRadius => strength = 0)
            /\ (seg.t = 0 => strength = 0)
            /\ (seg.t = One => Abs(strength - RadialFalloff(seg.d)) <= StrengthTolerance)
            /\ \A n \in 1 .. 8 :
                  RadialFalloff(seg.d + (n * Unit) \div 4) <= RadialFalloff(seg.d)

\* the same for WebGLGrass, and for Grass when the segment is longer than 0.1
C16_OutsideShortSegmentsOfGrass ==
    (/\ vertex # NoVertex
     /\ Segment(uniforms, vertex.grassPos).length > 0
     /\ (Variant = "Grass" => Segment(uniforms, vertex.grassPos).length > MinLineLength)) =>
        LET seg      == Segment(uniforms, vertex.grassPos)
            strength == vertex.trail.bendStrength
            claimed  == IF seg.d < InfluenceRadius
                        THEN (RadialFalloff(seg.d) * Smoothstep(0, One, seg.t)) \div One
                        ELSE 0
        IN  /\ Abs(strength - claimed) <= StrengthTolerance
            /\ (seg.d >= InfluenceRadius => strength = 0)
            /\ (seg.t = 0 => strength = 0)
            /\ (seg.t = One => Abs(strength - RadialFalloff(seg.d)) <= StrengthTolerance)
            /\ \A n \in 1 .. 8 :
                  RadialFalloff(seg.d + (n * Unit) \div 4) <= RadialFalloff(seg.d)

\* an instance beside the middle of a long segment, bent with part of the strength
C16_Witness ==
    /\ vertex # NoVertex
    /\ vertex.trail.lineLength > Unit
    /\ vertex.trail.positionAlongLine \in 1 .. (One - 1)
    /\ vertex.trail.distanceToLine \in 1 .. (InfluenceRadius - 1)
    /\ vertex.trail.bendStrength \in 1 .. (One - 1)

\* -k/10 * uv.y * |h|^2 for the horizontal part h of a bend, lengths in 1/Unit
Foreshortening(k, uvY, h) ==
    -((((h.x * h.x + h.z * h.z) \div Unit) * k * uvY) \div (10 * One))

\* h is a non-negative multiple of w, up to the rounding of the two: it does not
\* point against w and is parallel to it
NonNegativeMultiple(h, w) ==
    /\ Sign(h.x) * Sign(w.x) >= 0 \/ Abs(w.x) <= 2
    /\ Sign(h.z) * Sign(w.z) >= 0 \/ Abs(w.z) <= 2
    /\ (h # Zero =>
          Abs(w.x * h.z - w.z * h.x)
            <= 2 * (Abs(w.x) + Abs(w.z)) + 2 * (Abs(h.x) + Abs(h.z)))

\* C17: for every instance and trail state the horizontal part of the trail
\* bend is a non-negative multiple of (instance position - closest point on the
\* segment), and its vertical component is the foreshortening term alone.
C17_BendAwayFromSegment ==
    vertex # NoVertex =>
        /\ vertex.trail.bend # NaN
        /\ NonNegativeMultiple(XZ(vertex.trail.bend),
                               Sub(vertex.grassPos,
                                   Segment(uniforms, vertex.grassPos).closest))
        /\ Abs(vertex.trail.bend.y
                 - Foreshortening(3, instance.uvY, vertex.trail.bend)) <= 2

\* the same for the evaluations whose bend is a number
C17_WhereDefined ==
    (vertex # NoVertex /\ vertex.trail.bend # NaN) =>
        /\ NonNegativeMultiple(XZ(vertex.trail.bend),
                               Sub(vertex.grassPos,
                                   Segment(uniforms, vertex.grassPos).closest))
        /\ Abs(vertex.trail.bend.y
                 - Foreshortening(3, instance.uvY, vertex.trail.bend)) <= 2

\* a vertex bent sideways, off both axes, and lowered
C17_Witness ==
    /\ vertex # NoVertex
    /\ vertex.trail.bend # NaN
    /\ Abs(vertex.trail.bend.x) > Unit \div 10
    /\ Abs(vertex.trail.bend.z) > Unit \div 10
    /\ Abs(vertex.trail.bend.x) # Abs(vertex.trail.bend.z)
    /\ vertex.trail.bend.y < 0

\* the three lateral bends of a vertex with the tenths k of their compensation
Bends(v) == {<<2, v.rest.bend>>, <<3, v.trail.bend>>, <<1, v.wind.bend>>}

\* C18: for the rest bend, the trail bend and the wind bend of every vertex of
\* WebGLGrass the vertical component is -k * uv.y * |h|^2 with k = 0.2, 0.3 and
\* 0.1 and h the bend's horizontal part, so it is never positive and the three
\* together never raise the vertex.
C18_BendsForeshortened ==
    (vertex # NoVertex /\ Variant = "WebGLGrass") =>
        /\ \A b \in Bends(vertex) :
              /\ b[2] # NaN
              /\ Abs(b[2].y - Foreshortening(b[1], instance.uvY, b[2])) <= 2
              /\ b[2].y <= 0
        /\ vertex.rest.bend.y + vertex.trail.bend.y + vertex.wind.bend.y <= 0

\* the same relation in Grass for the bends that are numbers
C18_GrassWhereDefined ==
    (vertex # NoVertex /\ Variant = "Grass") =>
        \A b \in Bends(vertex) :
            b[2] # NaN =>
                /\ Abs(b[2].y - Foreshortening(b[1], instance.uvY, b[2])) <= 2
                /\ b[2].y <= 0

\* a vertex of WebGLGrass below the tip that all three bends move sideways and
\* lower
C18_Witness ==
    /\ vertex # NoVertex
    /\ Variant = "WebGLGrass"
    /\ instance.uvY \in 1 .. (One - 1)
    /\ \A b \in Bends(vertex) :
          /\ b[2] # NaN
          /\ XZ(b[2]) # Zero
          /\ b[2].y < 0

\* rest bend + trail bend + wind bend in the ground plane, NaN if one of them is
TotalHorizontal(v) ==
    IF \E b \in Bends(v) : b[2] = NaN THEN NaN
    ELSE Vec(v.rest.bend.x + v.trail.bend.x + v.wind.bend.x, 0,
             v.rest.bend.z + v.trail.bend.z + v.wind.bend.z)

\* the sum of the largest rest bend (0.25 * (4.0 + 0.8)), trail bend (1.3) and
\* wind bend (1.05 * (0.8 * 5 / 0.5 - 2.5)) the control ranges allow
DisplacementBound == (33 * Unit) \div 4

\* C19: for every instance, vertex height, trail state, time and configuration
\* the length of the total horizontal displacement of the vertex is at most one
\* constant, whatever the time and the distance to the trail segment.
C19_DisplacementBounded ==
    vertex # NoVertex =>
        /\ TotalHorizontal(vertex) # NaN
        /\ Length(TotalHorizontal(vertex)) <= DisplacementBound

\* the same for the evaluations whose bends are numbers
C19_BoundedWhereDefined ==
    (vertex # NoVertex /\ TotalHorizontal(vertex) # NaN) =>
        Length(TotalHorizontal(vertex)) <= DisplacementBound

\* a vertex on the trail segment itself, at the latest modelled time, displaced
\* by more than a world unit
C19_Witness ==
    /\ vertex # NoVertex
    /\ TotalHorizontal(vertex) # NaN
    /\ vertex.trail.distanceToLine = 0
    /\ config.time = 60 * TicksPerSecond
    /\ Length(TotalHorizontal(vertex)) > Unit

\* fieldSize = 50, bladeCount = 150000, windSpeed = 0 at time 0, the body at
\* rest at the origin with the lag point on the lead point
StationaryAtOrigin ==
    /\ config.fieldSize = 50
    /\ config.instanceCount = 150000
    /\ config.windSpeed = 0
    /\ config.time = 0
    /\ uniforms = Trail(OnPlane(0, 0), OnPlane(0, 0))

\* the same vertex of the instances placed opposite the instance i, at the same
\* distance from the origin
OppositeInstances(i, u, c) ==
    { j \in [idx : Indices(c), uvY : {i.uvY}] :
          /\ GrassPos(j, u, c).x = -GrassPos(i, u, c).x
          /\ GrassPos(j, u, c).z = -GrassPos(i, u, c).z }

\* a and b have the same length and opposite directions
EqualAndOpposite(a, b) ==
    a # NaN /\ b # NaN /\ a.x = -b.x /\ a.z = -b.z

\* the bend an instance receives in the ground plane: the three bends of
\* WebGLGrass, the trail bend of Grass
BendVector(v) ==
    IF Variant = "Grass" THEN
        IF v.trail.bend = NaN THEN NaN ELSE XZ(v.trail.bend)
    ELSE TotalHorizontal(v)

Stiffnesses == { Stiffness([idx |-> n, uvY |-> 0], uniforms, config) : n \in SurfaceIndices(config) }

\* the octaves with the weight the file gives their sum
WeightedOctaves(sh, octaves) == IF sh = "part_000" THEN octaves ELSE (octaves * 4) \div 10

\* C21: in the files with a wind speed input the stiffness is in [0.5, 1.3), the
\* wind value is octaves * windSpeed / stiffness, with windSpeed = 0 the wind
\* bend is zero, and for the same octaves a stiffer instance gets a wind value
\* of smaller or equal magnitude.
C21_WindValue ==
    (vertex # NoVertex /\ shader # "App.tsx") =>
        /\ vertex.wind.stiffness >= One \div 2
        /\ vertex.wind.stiffness < (13 * One) \div 10
        /\ Abs(vertex.wind.totalWind
                 - (((WeightedOctaves(shader, vertex.wind.noise) * config.windSpeed) \div 10)
                       * One) \div vertex.wind.stiffness) <= 2
        /\ config.windSpeed = 0 => vertex.wind.bend = Zero
        /\ \A stiffer \in Stiffnesses :
              stiffer >= vertex.wind.stiffness =>
                  Abs(TotalWind(shader, vertex.wind.noise, config.windSpeed, stiffer))
                    <= Abs(vertex.wind.totalWind)

\* the same for WebGLGrass.tsx alone
C21_WebGLGrassTsx ==
    shader = "WebGLGrass.tsx" => C21_WindValue

\* the stiffness range and the still air of part_000
C21_StiffnessAndCalm ==
    (vertex # NoVertex /\ shader # "App.tsx") =>
        /\ vertex.wind.stiffness >= One \div 2
        /\ vertex.wind.stiffness < (13 * One) \div 10
        /\ config.windSpeed = 0 => vertex.wind.bend = Zero

\* a blade tip in wind, softer than another modelled instance
C21_Witness ==
    /\ vertex # NoVertex
    /\ shader # "App.tsx"
    /\ config.windSpeed > 0
    /\ instance.uvY = One
    /\ vertex.wind.noise > 0
    /\ vertex.wind.bend # Zero
    /\ \E stiffer \in Stiffnesses : stiffer > vertex.wind.stiffness

\* the horizontal wind bend of the tip of the same blade, for the wind value of
\* the vertex
TipWindBend == WindVector(WindAtHeight(shader, vertex.wind.totalWind, One), One)

\* uv.y squared
HeightSquared(uvY) == (uvY * uvY) \div One

\* C22: for the wind value of the instance the horizontal wind bend is zero at
\* the base and at height uv.y it is at most uv.y squared times the bend of the
\* tip, so at half height at most a quarter of it.
C22_Superlinear ==
    vertex # NoVertex =>
        /\ instance.uvY = 0 => (vertex.wind.bend.x = 0 /\ vertex.wind.bend.z = 0)
        /\ Abs(vertex.wind.bend.x) <= (Abs(TipWindBend.x) * HeightSquared(instance.uvY)) \div One + 3
        /\ Abs(vertex.wind.bend.z) <= (Abs(TipWindBend.z) * HeightSquared(instance.uvY)) \div One + 3

\* the same for the files that take the cube of uv.y
C22_Cubic ==
    shader # "part_000" => C22_Superlinear

\* the wind bend of part_000 is zero at the base
C22_ZeroAtBase ==
    (vertex # NoVertex /\ instance.uvY = 0) =>
        (vertex.wind.bend.x = 0 /\ vertex.wind.bend.z = 0)

\* a vertex at half height of a blade whose tip the wind bends
C22_Witness ==
    /\ vertex # NoVertex
    /\ instance.uvY = One \div 2
    /\ Abs(TipWindBend.x) > Unit \div 10
    /\ vertex.wind.bend.x # 0

\* a render replaced the instancedMesh element
MeshRecreated == mesh' # mesh

\* the update effect has run for the latest values of the panel
EffectHasRun == rendered = controls /\ ~effect

\* the four shader inputs hold the values of the panel
LatestValues ==
    /\ config.fieldSize = controls.fieldSize
    /\ config.instanceCount = controls.bladeCount
    /\ config.windSpeed = controls.windSpeed
    /\ config.grassHeight = controls.bladeHeight

\* C23: a render recreates the instanced mesh exactly when the blade count or
\* the field size changed (a change of the blade height or of the wind speed
\* alone keeps it), and once the update effect has run the four shader inputs
\* equal the latest values of the panel.
C23_Regeneration ==
    /\ [][(rendered' # rendered) =>
             (MeshRecreated <=> (rendered'.bladeCount # rendered.bladeCount
                                   \/ rendered'.fieldSize # rendered.fieldSize))]_vars
    /\ [](EffectHasRun => LatestValues)

\* the mesh is recreated exactly when the blade count changed
C23_KeyIsBladeCount ==
    [][(rendered' # rendered) =>
          (MeshRecreated <=> rendered'.bladeCount # rendered.bladeCount)]_vars

\* once the effect has run the shader inputs are the latest values
C23_LatestValues ==
    EffectHasRun => LatestValues

\* all four controls were moved, the mesh was replaced and the effect has run
C23_Witness ==
    /\ EffectHasRun
    /\ mesh > 1
    /\ \A name \in ControlNames : controls[name] # DefaultControls[name]

\* the category weights of the vertex
Weights == vertex.color.category

\* C24: the category weights isDark, isYellow and isBright are each 0 or 1 and
\* sum to 1, so exactly one category is selected, and away from the thresholds
\* 0.3 and 0.7 the selected category is that of the if/else form.
C24_OneCategory ==
    vertex # NoVertex =>
        /\ vertex.color.hueVar >= 0 /\ vertex.color.hueVar < One
        /\ {Weights.isDark, Weights.isYellow, Weights.isBright} \subseteq {0, One}
        /\ Weights.isDark + Weights.isYellow + Weights.isBright = One
        /\ vertex.color.hueVar \notin {DarkBelow, YellowBelow}
              => Weights = CategoryByBranch(vertex.color.hueVar)

\* a vertex of the branch-free file in the yellow category
C24_Witness ==
    /\ vertex # NoVertex
    /\ shader = "part_000"
    /\ vertex.color.hueVar > DarkBelow
    /\ vertex.color.hueVar < YellowBelow
    /\ Weights.isYellow = One

\* on a threshold the branch-free form selects the category below it
C24_AtThreshold ==
    (vertex # NoVertex /\ shader # "App.tsx" /\ vertex.color.hueVar \in {DarkBelow, YellowBelow})
        => Weights # CategoryByBranch(vertex.color.hueVar)

\* the factor the colour was multiplied by
ShadowFactor == One - vertex.color.darkenAmount

\* C25: in the files the claim cites the shadow radius is smaller than the
\* trail influence radius, an instance at d >= shadowRadius keeps its colour,
\* and at d < shadowRadius its colour is multiplied by
\* 1 - 0.8 * smoothstep(0, 1, 1 - d / shadowRadius), a factor in [0.2, 1].
C25_Shadow ==
    (vertex # NoVertex /\ shader # "WebGLGrass.tsx") =>
        /\ ShadowRadius(shader) < InfluenceRadiusOf(shader)
        /\ vertex.color.distanceToSphere >= ShadowRadius(shader)
              => (ShadowFactor = One /\ vertex.vColor = vertex.color.unshadowed)
        /\ vertex.color.distanceToSphere < ShadowRadius(shader)
              => ShadowFactor = One - (Smoothstep(0, One, One - (vertex.color.distanceToSphere * One) \div ShadowRadius(shader)) * 8) \div 10
        /\ ShadowFactor >= (2 * One) \div 10 /\ ShadowFactor <= One
        /\ vertex.vColor = ScaleRgb(vertex.color.unshadowed, ShadowFactor)

\* the same without the comparison of the two radii
C25_Darkening ==
    (vertex # NoVertex /\ shader # "WebGLGrass.tsx") =>
        /\ vertex.color.distanceToSphere >= ShadowRadius(shader)
              => (ShadowFactor = One /\ vertex.vColor = vertex.color.unshadowed)
        /\ vertex.color.distanceToSphere < ShadowRadius(shader)
              => ShadowFactor = One - (Smoothstep(0, One, One - (vertex.color.distanceToSphere * One) \div ShadowRadius(shader)) * 8) \div 10
        /\ ShadowFactor >= (2 * One) \div 10 /\ ShadowFactor <= One
        /\ vertex.vColor = ScaleRgb(vertex.color.unshadowed, ShadowFactor)

\* an instance the shadow darkens although it is outside the influence radius
C25_DarkenedOutside ==
    /\ vertex # NoVertex
    /\ shader # "WebGLGrass.tsx"
    /\ vertex.color.distanceToSphere > InfluenceRadiusOf(shader)
    /\ ShadowFactor < One
    /\ vertex.vColor # vertex.color.unshadowed

\* the channels of the colour the fragment stage wrote
Channels == {fragment.litColor.r, fragment.litColor.g, fragment.litColor.b}

\* C26: each channel of the colour the fragment stage writes, the vertex colour
\* times the lighting plus the specular term, lies in [0, 1].
C26_Displayable ==
    fragment # NoFragment => \A ch \in Channels : ch >= 0 /\ ch <= Tone

\* no channel is negative
C26_NotNegative ==
    fragment # NoFragment => \A ch \in Channels : ch >= 0

\* without a specular term, a colour hash of at most 0.9 keeps the channels
\* in the range
C26_InRangeWithout ==
    (fragment # NoFragment /\ fragment.specular = 0 /\ vertex.color.colorVar <= (9 * One) \div 10)
        => \A ch \in Channels : ch <= Tone

\* a lit fragment of part_000 above the range
C26_TooBright ==
    /\ fragment # NoFragment
    /\ shader = "part_000"
    /\ fragment.litColor.g > Tone

\* a fragment of Grass whose specular term alone is above the range
C26_TooShiny ==
    /\ fragment # NoFragment
    /\ shader = "App.tsx"
    /\ fragment.specular > One

\* the largest change of the weight for one thousandth of alignment, and for
\* one thousandth of a turn of angular distance
WeightStep == (3 * One) \div 1000

WeightStepByAngle == (9 * One) \div 1000

\* the corrected rotation of the vertex had its alignment been a
RotationAt(a) ==
    Mix(vertex.rotation.randomRotation, vertex.rotation.optimalAngle, BillboardStrength(a))

\* C27: the corrected rotation is the base rotation for alignment <= 0.3, the
\* weight of the camera-facing angle is a function of the alignment that never
\* exceeds 0.7 and is 0.7 from alignment 0.9 on, and along the sweep of the
\* alignment from 0 to 1, the base and the facing angle fixed, the weight never
\* falls and the rotation moves by at most WeightStep of the angle between the
\* two per thousandth of alignment: there is no jump.
C27_Continuous ==
    (vertex # NoVertex /\ fragment = NoFragment /\ shader # "App.tsx") =>
        /\ vertex.rotation.alignment <= (3 * One) \div 10
              => vertex.rotation.finalRotation = vertex.rotation.randomRotation
        /\ vertex.rotation.weight <= (7 * One) \div 10
        /\ vertex.rotation.alignment >= (9 * One) \div 10
              => vertex.rotation.weight = (7 * One) \div 10
        /\ vertex.rotation.finalRotation = RotationAt(vertex.rotation.alignment)
        /\ \A a \in 0 .. (One - 1) :
              /\ BillboardStrength(a + 1) >= BillboardStrength(a)
              /\ Abs(RotationAt(a + 1) - RotationAt(a))
                    <= (WeightStep * Abs(vertex.rotation.optimalAngle - vertex.rotation.randomRotation)) \div One + 1

\* the same for part_000 alone
C27_PartZero ==
    shader = "part_000" => C27_Continuous

\* WebGLGrass.tsx: the weight never exceeds 0.7 and rises without a jump with
\* the angular distance to the facing angle
C27_ByAngle ==
    (vertex # NoVertex /\ fragment = NoFragment /\ shader = "WebGLGrass.tsx") =>
        /\ vertex.rotation.weight <= (7 * One) \div 10
        /\ \A d \in 0 .. (One \div 2 - 1) :
              /\ EdgeOnStrength(d + 1) >= EdgeOnStrength(d)
              /\ EdgeOnStrength(d + 1) - EdgeOnStrength(d) <= WeightStepByAngle

\* a blade of WebGLGrass.tsx that shows its wide side to the camera and is
\* turned by the full weight
C27_TurnedWhenFacing ==
    /\ vertex # NoVertex
    /\ shader = "WebGLGrass.tsx"
    /\ vertex.rotation.alignment <= (3 * One) \div 10
    /\ vertex.rotation.weight = (7 * One) \div 10
    /\ vertex.rotation.finalRotation # vertex.rotation.randomRotation

\* blades of part_000 below, between and above the two thresholds
C27_Witness ==
    /\ vertex # NoVertex
    /\ shader = "part_000"
    /\ vertex.rotation.alignment > (3 * One) \div 10
    /\ vertex.rotation.alignment < (9 * One) \div 10
    /\ vertex.rotation.weight > 0
    /\ vertex.rotation.finalRotation # vertex.rotation.randomRotation

\* C28: whenever a pointer target is set the pointer is pressed: a target is
\* set only by a frame that runs while the pointer is pressed, and the release
\* clears it.
C28_TargetImpliesEngaged ==
    /\ [](mouseTarget # NoTarget => isMousePressed)
    /\ [][ /\ ((mouseTarget' # mouseTarget /\ mouseTarget' # NoTarget)
                  => (SphereStep /\ isMousePressed))
           /\ ((isMousePressed /\ ~isMousePressed') => mouseTarget' = NoTarget)
         ]_vars

\* a frame has set a target while the pointer is pressed
C28_Witness ==
    /\ pc = "idle"
    /\ frame >= 1
    /\ isMousePressed
    /\ mouseTarget # NoTarget

\* c lies between a and b
Within(a, c, b) == (a <= c /\ c <= b) \/ (b <= c /\ c <= a)

\* the point c lies in the box spanned by a and b: on the line through a and
\* b that is the closed segment from a to b
OnSegment(a, c, b) == Within(a.x, c.x, b.x) /\ Within(a.y, c.y, b.y) /\ Within(a.z, c.z, b.z)

\* C29: after every trail update the new lag point lies on the closed segment
\* between the previous lag point and the lead point the update read.
C29_LagOnSegment ==
    [][ GrassStep => OnSegment(oldestTrailPosition, oldestTrailPosition', uniforms'.spherePosition) ]_vars

\* the same for the frames with rate * delta <= 1 only
C29_ShortFrames ==
    [][ (GrassStep /\ delta <= TrailDivisor(trailRate)) =>
           OnSegment(oldestTrailPosition, oldestTrailPosition', uniforms'.spherePosition) ]_vars

\* the lag point has gone past the lead point of the update
C29_Overshot ==
    /\ pc = "sphere"
    /\ lagWrites = 1
    /\ Abs(oldestTrailPosition.z) > Abs(uniforms.spherePosition.z)
    /\ uniforms.spherePosition.z # 0

\* C30: the body starts at (0, 1, 0) with zero velocity, and a frame that runs
\* with the body at rest, no key held and the pointer not pressed leaves the
\* velocity zero and the position unchanged and applies no rolling rotation.
C30_RestsWithoutInput ==
    /\ (position = Vec(0, Unit, 0) /\ velocity = Zero /\ roll = NoRoll)
    /\ [][ (SphereStep /\ velocity = Zero /\ ~isMousePressed /\ \A k \in KeyNames : ~keys[k])
              => (velocity' = Zero /\ position' = position /\ ~roll'.applied)
         ]_vars

\* frames have run without any input and the body is where it started
C30_Witness ==
    /\ pc = "idle"
    /\ frame >= 2
    /\ events = 0
    /\ position = StartPosition
    /\ velocity = Zero
    /\ roll = NoRoll

====
